---- MODULE Spec2Model ----
(***************************************************************************)
(* Failure-capture-and-report pipeline of the backend (src/main.go):       *)
(* panicRecoveryMiddleware, extractBoardId, isValidHex and                 *)
(* sendErrorToEndpoint.                                                    *)
(*                                                                         *)
(* A Go string is modelled as the sequence of its bytes.  A byte that a    *)
(* TLA+ string can hold is the one-character string; every other byte      *)
(* (0x80..0xFF, the control bytes without an escape, the grave accent) is  *)
(* the token of its two upper-case hexadecimal digits, as in Kelvin below. *)
(***************************************************************************)
EXTENDS Integers, Sequences, FiniteSets, TLC

VARIABLES
    env,        \* process environment: BOARD_ID, RUNTIME_ERROR_ENDPOINT_URL
    req,        \* per request: the *http.Request seen by the middleware
    pc,         \* per request: position of the request's goroutine
    resp,       \* per request: state of the http.ResponseWriter
    err,        \* per request: fmt.Sprintf("%v", err) of the recovered value
    stackTrace, \* per request: string(buf[:n]) captured by runtime.Stack
    boardId,    \* per request: result of extractBoardId
    task        \* per request: the goroutine running sendErrorToEndpoint

vars == <<env, req, pc, resp, err, stackTrace, boardId, task>>

(***************************************************************************)
(* Bounds of the model.                                                    *)
(***************************************************************************)
NumRequests == 2    \* requests served concurrently
MaxShort == 1       \* hosts carry down to BoardIdLen - MaxShort characters after the marker
MaxExtra == 1       \* ... and up to BoardIdLen + MaxExtra
MaxFrames == 2      \* frames of a trace made of machinery and standard library frames
MaxMachinery == 2   \* machinery frames in front of the application frame
MaxHeaders == 1     \* goroutine header lines in front of the frames
MaxTextLen == 3     \* length of the messages and traces given to the escaping
MaxApps == 3        \* application frames of a trace with several of them

(***************************************************************************)
(* Program constants.                                                      *)
(***************************************************************************)
MarkerLen == 6      \* host[idx+6:]
BoardIdLen == 24    \* len(remaining) >= 24, remaining[:24]
StatusOK == 200                     \* http.StatusOK
StatusInternalServerError == 500    \* http.StatusInternalServerError
StatusCreated == 201                \* http.StatusCreated

(***************************************************************************)
(* Strings.                                                                *)
(***************************************************************************)
Chars(s) == [i \in 1..Len(s) |-> SubSeq(s, i, i)]

Range(f) == {f[i] : i \in DOMAIN f}

\* UTF-8 bytes E2 84 AA of the Kelvin sign U+212A
Kelvin == <<"E2", "84", "AA">>

LowerAlphabet == Chars("abcdefghijklmnopqrstuvwxyz")
UpperAlphabet == Chars("ABCDEFGHIJKLMNOPQRSTUVWXYZ")

\* unicode.ToLower on an ASCII byte
LowerByte(c) ==
    IF \E k \in 1..26 : UpperAlphabet[k] = c
    THEN LowerAlphabet[CHOOSE k \in 1..26 : UpperAlphabet[k] = c]
    ELSE c

\* concatenation of the sequences ss[lo], ..., ss[hi]
RECURSIVE Flatten(_, _, _)
Flatten(ss, lo, hi) ==
    IF lo > hi THEN <<>>
    ELSE IF lo = hi THEN ss[lo]
    ELSE LET mid == (lo + hi) \div 2
         IN  Flatten(ss, lo, mid) \o Flatten(ss, mid + 1, hi)

\* the characters 0x20..0x7E in order; "60" is the grave accent
Ascii ==
    Chars(" !\"#$%&'()*+,-./0123456789:;<=>?@ABCDEFGHIJKLMNOPQRSTUVWXYZ[\\]^_")
    \o <<"60">> \o Chars("abcdefghijklmnopqrstuvwxyz{|}~")

\* the value of a hexadecimal digit (net/url unhex)
unhex(c) ==
    LET hex == Chars("0123456789abcdef")
    IN  (CHOOSE d \in 1..16 : hex[d] = LowerByte(c)) - 1

HexUpper == Chars("0123456789ABCDEF")

\* the token of the byte with value v
Token(v) == HexUpper[(v \div 16) + 1] \o HexUpper[(v % 16) + 1]

\* c is a byte from 0x80 upward
IsHigh(c) == Len(c) = 2 /\ SubSeq(c, 1, 1) \in {"8", "9", "A", "B", "C", "D", "E", "F"}

\* the value of a byte from 0x80 upward
ByteValue(c) == unhex(SubSeq(c, 1, 1)) * 16 + unhex(SubSeq(c, 2, 2))

\* utf8.RuneError, U+FFFD
RuneError == 65533

\* utf8.DecodeRuneInString(s[i-1:]) for a first byte from 0x80 upward: the rune
\* and its size, RuneError and 1 when the bytes are not a UTF-8 encoding
RuneAt(s, i) ==
    LET At(j) == IF j <= Len(s) /\ IsHigh(s[j]) THEN ByteValue(s[j]) ELSE 0
        b == At(i)
        Cont(j) == At(j) \in 128..191
    IN  IF b \in 194..223 /\ Cont(i + 1)
        THEN [size |-> 2, r |-> (b - 192) * 64 + (At(i + 1) - 128)]
        ELSE IF /\ b \in 224..239
                /\ At(i + 1) \in (IF b = 224 THEN 160 ELSE 128)..(IF b = 237 THEN 159 ELSE 191)
                /\ Cont(i + 2)
        THEN [size |-> 3,
              r |-> (b - 224) * 4096 + (At(i + 1) - 128) * 64 + (At(i + 2) - 128)]
        ELSE IF /\ b \in 240..244
                /\ At(i + 1) \in (IF b = 240 THEN 144 ELSE 128)..(IF b = 244 THEN 143 ELSE 191)
                /\ Cont(i + 2) /\ Cont(i + 3)
        THEN [size |-> 4,
              r |-> (b - 240) * 262144 + (At(i + 1) - 128) * 4096
                    + (At(i + 2) - 128) * 64 + (At(i + 3) - 128)]
        ELSE [size |-> 1, r |-> RuneError]

\* the UTF-8 bytes of the rune r, 0x20 <= r
EncodeRune(r) ==
    IF r < 128 THEN <<Ascii[r - 31]>>
    ELSE IF r < 2048 THEN <<Token(192 + (r \div 64)), Token(128 + (r % 64))>>
    ELSE IF r < 65536
    THEN <<Token(224 + (r \div 4096)), Token(128 + ((r \div 64) % 64)), Token(128 + (r % 64))>>
    ELSE <<Token(240 + (r \div 262144)), Token(128 + ((r \div 4096) % 64)),
           Token(128 + ((r \div 64) % 64)), Token(128 + (r % 64))>>

\* the lower-case mappings of the runes from U+0080 upward (unicode.CaseRanges,
\* Unicode 14): <<lo, hi, stride, delta>> maps lo, lo + stride, ..., hi to
\* itself plus delta
LowerRanges ==
    <<<<192, 214, 1, 32>>, <<216, 222, 1, 32>>, <<256, 302, 2, 1>>, <<304, 304, 1, -199>>,
     <<306, 310, 2, 1>>, <<313, 327, 2, 1>>, <<330, 374, 2, 1>>, <<376, 376, 1, -121>>,
     <<377, 381, 2, 1>>, <<385, 385, 1, 210>>, <<386, 388, 2, 1>>, <<390, 390, 1, 206>>,
     <<391, 391, 1, 1>>, <<393, 394, 1, 205>>, <<395, 395, 1, 1>>, <<398, 398, 1, 79>>,
     <<399, 399, 1, 202>>, <<400, 400, 1, 203>>, <<401, 401, 1, 1>>, <<403, 403, 1, 205>>,
     <<404, 404, 1, 207>>, <<406, 406, 1, 211>>, <<407, 407, 1, 209>>, <<408, 408, 1, 1>>,
     <<412, 412, 1, 211>>, <<413, 413, 1, 213>>, <<415, 415, 1, 214>>, <<416, 420, 2, 1>>,
     <<422, 422, 1, 218>>, <<423, 423, 1, 1>>, <<425, 425, 1, 218>>, <<428, 428, 1, 1>>,
     <<430, 430, 1, 218>>, <<431, 431, 1, 1>>, <<433, 434, 1, 217>>, <<435, 437, 2, 1>>,
     <<439, 439, 1, 219>>, <<440, 440, 1, 1>>, <<444, 444, 1, 1>>, <<452, 452, 1, 2>>,
     <<453, 453, 1, 1>>, <<455, 455, 1, 2>>, <<456, 456, 1, 1>>, <<458, 458, 1, 2>>,
     <<459, 475, 2, 1>>, <<478, 494, 2, 1>>, <<497, 497, 1, 2>>, <<498, 500, 2, 1>>,
     <<502, 502, 1, -97>>, <<503, 503, 1, -56>>, <<504, 542, 2, 1>>, <<544, 544, 1, -130>>,
     <<546, 562, 2, 1>>, <<570, 570, 1, 10795>>, <<571, 571, 1, 1>>, <<573, 573, 1, -163>>,
     <<574, 574, 1, 10792>>, <<577, 577, 1, 1>>, <<579, 579, 1, -195>>, <<580, 580, 1, 69>>,
     <<581, 581, 1, 71>>, <<582, 590, 2, 1>>, <<880, 882, 2, 1>>, <<886, 886, 1, 1>>,
     <<895, 895, 1, 116>>, <<902, 902, 1, 38>>, <<904, 906, 1, 37>>, <<908, 908, 1, 64>>,
     <<910, 911, 1, 63>>, <<913, 929, 1, 32>>, <<931, 939, 1, 32>>, <<975, 975, 1, 8>>,
     <<984, 1006, 2, 1>>, <<1012, 1012, 1, -60>>, <<1015, 1015, 1, 1>>, <<1017, 1017, 1, -7>>,
     <<1018, 1018, 1, 1>>, <<1021, 1023, 1, -130>>, <<1024, 1039, 1, 80>>, <<1040, 1071, 1, 32>>,
     <<1120, 1152, 2, 1>>, <<1162, 1214, 2, 1>>, <<1216, 1216, 1, 15>>, <<1217, 1229, 2, 1>>,
     <<1232, 1326, 2, 1>>, <<1329, 1366, 1, 48>>, <<4256, 4293, 1, 7264>>, <<4295, 4295, 1, 7264>>,
     <<4301, 4301, 1, 7264>>, <<5024, 5103, 1, 38864>>, <<5104, 5109, 1, 8>>, <<7312, 7354, 1, -3008>>,
     <<7357, 7359, 1, -3008>>, <<7680, 7828, 2, 1>>, <<7838, 7838, 1, -7615>>, <<7840, 7934, 2, 1>>,
     <<7944, 7951, 1, -8>>, <<7960, 7965, 1, -8>>, <<7976, 7983, 1, -8>>, <<7992, 7999, 1, -8>>,
     <<8008, 8013, 1, -8>>, <<8025, 8031, 2, -8>>, <<8040, 8047, 1, -8>>, <<8072, 8079, 1, -8>>,
     <<8088, 8095, 1, -8>>, <<8104, 8111, 1, -8>>, <<8120, 8121, 1, -8>>, <<8122, 8123, 1, -74>>,
     <<8124, 8124, 1, -9>>, <<8136, 8139, 1, -86>>, <<8140, 8140, 1, -9>>, <<8152, 8153, 1, -8>>,
     <<8154, 8155, 1, -100>>, <<8168, 8169, 1, -8>>, <<8170, 8171, 1, -112>>, <<8172, 8172, 1, -7>>,
     <<8184, 8185, 1, -128>>, <<8186, 8187, 1, -126>>, <<8188, 8188, 1, -9>>, <<8486, 8486, 1, -7517>>,
     <<8490, 8490, 1, -8383>>, <<8491, 8491, 1, -8262>>, <<8498, 8498, 1, 28>>, <<8544, 8559, 1, 16>>,
     <<8579, 8579, 1, 1>>, <<9398, 9423, 1, 26>>, <<11264, 11311, 1, 48>>, <<11360, 11360, 1, 1>>,
     <<11362, 11362, 1, -10743>>, <<11363, 11363, 1, -3814>>, <<11364, 11364, 1, -10727>>, <<11367, 11371, 2, 1>>,
     <<11373, 11373, 1, -10780>>, <<11374, 11374, 1, -10749>>, <<11375, 11375, 1, -10783>>, <<11376, 11376, 1, -10782>>,
     <<11378, 11378, 1, 1>>, <<11381, 11381, 1, 1>>, <<11390, 11391, 1, -10815>>, <<11392, 11490, 2, 1>>,
     <<11499, 11501, 2, 1>>, <<11506, 11506, 1, 1>>, <<42560, 42604, 2, 1>>, <<42624, 42650, 2, 1>>,
     <<42786, 42798, 2, 1>>, <<42802, 42862, 2, 1>>, <<42873, 42875, 2, 1>>, <<42877, 42877, 1, -35332>>,
     <<42878, 42886, 2, 1>>, <<42891, 42891, 1, 1>>, <<42893, 42893, 1, -42280>>, <<42896, 42898, 2, 1>>,
     <<42902, 42920, 2, 1>>, <<42922, 42922, 1, -42308>>, <<42923, 42923, 1, -42319>>, <<42924, 42924, 1, -42315>>,
     <<42925, 42925, 1, -42305>>, <<42926, 42926, 1, -42308>>, <<42928, 42928, 1, -42258>>, <<42929, 42929, 1, -42282>>,
     <<42930, 42930, 1, -42261>>, <<42931, 42931, 1, 928>>, <<42932, 42946, 2, 1>>, <<42948, 42948, 1, -48>>,
     <<42949, 42949, 1, -42307>>, <<42950, 42950, 1, -35384>>, <<42951, 42953, 2, 1>>, <<42960, 42960, 1, 1>>,
     <<42966, 42968, 2, 1>>, <<42997, 42997, 1, 1>>, <<65313, 65338, 1, 32>>, <<66560, 66599, 1, 40>>,
     <<66736, 66771, 1, 40>>, <<66928, 66938, 1, 39>>, <<66940, 66954, 1, 39>>, <<66956, 66962, 1, 39>>,
     <<66964, 66965, 1, 39>>, <<68736, 68786, 1, 64>>, <<71840, 71871, 1, 32>>, <<93760, 93791, 1, 32>>,
     <<125184, 125217, 1, 34>>>>

\* unicode.ToLower for a rune from U+0080 upward
ToLowerRune(r) ==
    LET hits == {k \in 1..Len(LowerRanges) :
                    /\ LowerRanges[k][1] <= r /\ r <= LowerRanges[k][2]
                    /\ (r - LowerRanges[k][1]) % LowerRanges[k][3] = 0}
    IN  IF hits = {} THEN r ELSE r + LowerRanges[CHOOSE k \in hits : TRUE][4]

\* strings.ToLower: an ASCII string byte by byte; any other string rune by
\* rune (strings.Map), where a rune whose lower-case form has another UTF-8
\* length changes the length of the string (the 3-byte Kelvin sign becomes
\* the 1-byte "k") and a byte that is not part of a UTF-8 encoding becomes
\* the 3 bytes of U+FFFD
ToLower(s) ==
    LET dec == [i \in 1..Len(s) |->
                   IF IsHigh(s[i]) THEN RuneAt(s, i) ELSE [size |-> 1, r |-> 0]]
        Covered(i) == \E j \in (i - 3)..(i - 1) : j >= 1 /\ j + dec[j].size > i
        out == [i \in 1..Len(s) |->
                   IF Covered(i) THEN <<>>
                   ELSE IF IsHigh(s[i]) THEN EncodeRune(ToLowerRune(dec[i].r))
                   ELSE <<LowerByte(s[i])>>]
    IN  Flatten(out, 1, Len(s))

\* s[i:] and s[:j] and s[i:j] with Go's 0-based byte offsets
From(s, i) == SubSeq(s, i + 1, Len(s))
Upto(s, j) == SubSeq(s, 1, j)
Slice(s, i, j) == SubSeq(s, i + 1, j)

HasPrefix(s, p) == Len(s) >= Len(p) /\ SubSeq(s, 1, Len(p)) = p

\* the 0-based offsets at which p (not empty) occurs in s
Occurrences(s, p) ==
    {i \in 0..(Len(s) - Len(p)) : s[i + 1] = p[1] /\ Slice(s, i, i + Len(p)) = p}

\* strings.Index: 0-based offset of the first occurrence of p in s, -1 if none
Index(s, p) ==
    LET hits == Occurrences(s, p)
    IN  IF hits = {} THEN -1 ELSE CHOOSE i \in hits : \A j \in hits : i <= j

\* strings.LastIndex
LastIndex(s, p) ==
    LET hits == Occurrences(s, p)
    IN  IF hits = {} THEN -1 ELSE CHOOSE i \in hits : \A j \in hits : i >= j

Contains(s, p) == Occurrences(s, p) # {}

(***************************************************************************)
(* isValidHex                                                              *)
(***************************************************************************)
HexDigits == Range(Chars("0123456789abcdefABCDEF"))

\* a variant that forgets the range 'A'..'F'
isValidHexLowerOnly(s) == \A i \in 1..Len(s) : s[i] \in Range(Chars("0123456789abcdef"))

isValidHex(s) == \A i \in 1..Len(s) : s[i] \in HexDigits

(***************************************************************************)
(* extractBoardId                                                          *)
(***************************************************************************)
Marker == Chars("webapi")

\* the run-time panic of host[idx+6:] and endpointUrl[idx+6:] when idx+6 > len
OutOfRange == <<"panic: slice bounds out of range">>

\* the block applied to r.Host (lines 103-112) and to the endpoint URL (118-126):
\* idx is an offset of the lowered string and is applied to s itself
idAfterMarker(s) ==
    LET idx == Index(ToLower(s), Marker)
    IN  IF idx >= 0
        THEN IF idx + MarkerLen > Len(s) THEN OutOfRange
             ELSE LET remaining == From(s, idx + MarkerLen)
                  IN  IF Len(remaining) >= BoardIdLen
                      THEN LET id == Upto(remaining, BoardIdLen)
                           IN  IF isValidHex(id) THEN id ELSE <<>>
                      ELSE <<>>
        ELSE <<>>

fromHost(r) == IF r.host # <<>> THEN idAfterMarker(r.host) ELSE <<>>

fromEndpointUrl(e) ==
    IF e.RUNTIME_ERROR_ENDPOINT_URL # <<>>
    THEN idAfterMarker(e.RUNTIME_ERROR_ENDPOINT_URL)
    ELSE <<>>

\* a variant that tries the header before the query parameter
extractBoardIdHeaderFirst(r, e) ==
    IF r.header # <<>> THEN r.header
    ELSE IF r.query # <<>> THEN r.query
    ELSE IF e.BOARD_ID # <<>> THEN e.BOARD_ID
    ELSE IF fromHost(r) # <<>> THEN fromHost(r)
    ELSE fromEndpointUrl(e)

extractBoardId(r, e) ==
    IF r.query # <<>> THEN r.query
    ELSE IF r.header # <<>> THEN r.header
    ELSE IF e.BOARD_ID # <<>> THEN e.BOARD_ID
    ELSE IF fromHost(r) # <<>> THEN fromHost(r)
    ELSE fromEndpointUrl(e)

(***************************************************************************)
(* strings and strconv helpers used by sendErrorToEndpoint                 *)
(***************************************************************************)
\* strings.ReplaceAll(s, old, new) for a one-byte old
ReplaceAll(s, old, new) ==
    IF \A i \in 1..Len(s) : s[i] # old THEN s
    ELSE Flatten([i \in 1..Len(s) |-> IF s[i] = old THEN new ELSE <<s[i]>>], 1, Len(s))

\* strings.Split(s, sep) for a one-byte sep: always at least one part
Split(s, sep) ==
    LET P == {i \in 1..Len(s) : s[i] = sep}
        n == Cardinality(P)
        Nth(k) == CHOOSE p \in P : Cardinality({q \in P : q <= p}) = k
    IN  [k \in 1..(n + 1) |->
            SubSeq(s, IF k = 1 THEN 1 ELSE Nth(k - 1) + 1,
                      IF k = n + 1 THEN Len(s) ELSE Nth(k) - 1)]

\* strings.Join(parts, sep)
Join(parts, sep) ==
    Flatten([k \in 1..Len(parts) |-> IF k = 1 THEN parts[k] ELSE sep \o parts[k]],
            1, Len(parts))

\* the one-byte characters unicode.IsSpace accepts; "0B" is the byte \v
WhiteSpace == {" ", "\t", "\n", "0B", "\f", "\r"}

\* the UTF-8 bytes of the other characters unicode.IsSpace accepts: U+0085,
\* U+00A0, U+1680, U+2000..U+200A, U+2028, U+2029, U+202F, U+205F, U+3000
WideSpaces ==
    {<<"C2", "85">>, <<"C2", "A0">>, <<"E1", "9A", "80">>, <<"E2", "81", "9F">>,
     <<"E3", "80", "80">>}
    \cup {<<"E2", "80", b>> : b \in {"80", "81", "82", "83", "84", "85", "86", "87", "88",
                                      "89", "8A", "A8", "A9", "AF"}}

WideSpaceBytes == UNION {{w[k] : k \in 1..Len(w)} : w \in WideSpaces}

\* byte j of s belongs to a character unicode.IsSpace accepts
InSpace(s, j) ==
    \/ s[j] \in WhiteSpace
    \/ /\ s[j] \in WideSpaceBytes
       /\ \E w \in WideSpaces, k \in 1..3 :
              /\ k <= Len(w) /\ j - k + 1 >= 1 /\ j - k + Len(w) <= Len(s)
              /\ SubSeq(s, j - k + 1, j - k + Len(w)) = w

\* strings.TrimSpace
TrimSpace(s) ==
    LET solid == {i \in 1..Len(s) : ~InSpace(s, i)}
    IN  IF solid = {} THEN <<>>
        ELSE SubSeq(s, CHOOSE i \in solid : \A j \in solid : i <= j,
                       CHOOSE i \in solid : \A j \in solid : i >= j)

Digits == Chars("0123456789")

DigitValue(c) == (CHOOSE d \in 1..10 : Digits[d] = c) - 1

\* a Go int (64 bits) is its sign and the decimal digits of its magnitude
\* without leading zeros
Zero == [neg |-> FALSE, digits |-> <<"0">>]

Positive(n) == ~n.neg /\ n.digits # <<"0">>

\* the decimal digits of the natural number k
RECURSIVE Decimal(_)
Decimal(k) ==
    IF k < 10 THEN <<Digits[k + 1]>> ELSE Decimal(k \div 10) \o <<Digits[(k % 10) + 1]>>

\* the int with value k, a natural number
IntOf(k) == [neg |-> FALSE, digits |-> Decimal(k)]

\* ds without its leading zeros
Significant(ds) ==
    LET nz == {k \in 1..Len(ds) : ds[k] # "0"}
    IN  IF nz = {} THEN <<"0">>
        ELSE SubSeq(ds, CHOOSE k \in nz : \A m \in nz : k <= m, Len(ds))

\* a <= b for two magnitudes
DecimalLeq(a, b) ==
    \/ Len(a) < Len(b)
    \/ /\ Len(a) = Len(b)
       /\ \/ a = b
          \/ \E k \in 1..Len(a) :
                 /\ DigitValue(a[k]) < DigitValue(b[k])
                 /\ \A m \in 1..(k - 1) : a[m] = b[m]

\* 1<<63 - 1 and 1<<63
MaxInt64 == Chars("9223372036854775807")
MinInt64 == Chars("9223372036854775808")

\* strconv.Atoi: an optional sign and at least one decimal digit, nothing
\* else (a syntax error); a value outside the 64 bits of an int is a range
\* error, returned with the nearest int
Atoi(s) ==
    LET signed == s # <<>> /\ s[1] \in {"+", "-"}
        neg == signed /\ s[1] = "-"
        ds == IF signed THEN Tail(s) ELSE s
        mag == Significant(ds)
        limit == IF neg THEN MinInt64 ELSE MaxInt64
    IN  IF ds = <<>> \/ \E i \in 1..Len(ds) : ds[i] \notin Range(Digits)
        THEN [ok |-> FALSE, n |-> Zero]
        ELSE IF ~DecimalLeq(mag, limit) THEN [ok |-> FALSE, n |-> [neg |-> neg, digits |-> limit]]
        ELSE [ok |-> TRUE, n |-> [neg |-> neg /\ mag # <<"0">>, digits |-> mag]]

\* fmt.Sprintf("%d", n)
Itoa(n) == (IF n.neg THEN <<"-">> ELSE <<>>) \o n.digits

(***************************************************************************)
(* sendErrorToEndpoint: the frame-location loop (lines 147-226)            *)
(***************************************************************************)
\* descriptor lines of the recovery machinery (lines 176-181)
SkippedCallers ==
    {Chars("panicRecoveryMiddleware"), Chars("sendErrorToEndpoint"),
     Chars("runtime.Stack"), Chars("runtime.gopanic"),
     Chars("created by"), Chars("panic(")}

\* a variant that forgets the net and database packages
SkippedPathsShort ==
    {Chars("/runtime/"), Chars("/mise/installs/go/"), Chars("/src/runtime/"),
     Chars("/src/syscall/"), Chars("/src/internal/"),
     Chars("/usr/local/go/"), Chars("/usr/lib/go/")}

\* standard library, runtime and toolchain paths (lines 195-203)
SkippedPaths ==
    {Chars("/runtime/"), Chars("/mise/installs/go/"), Chars("/src/runtime/"),
     Chars("/src/net/"), Chars("/src/syscall/"), Chars("/src/internal/"),
     Chars("/src/database/"), Chars("/usr/local/go/"), Chars("/usr/lib/go/")}

GoroutinePrefix == Chars("goroutine")
GoSuffix == Chars(".go:")

NoFrame == [found |-> FALSE, fileName |-> <<>>, lineNumber |-> Zero]

\* a variant that takes the whole path as the file name
parseFrameWholePath(parts, filePath) ==
    LET last == TrimSpace(parts[Len(parts)])
        spaceIdx == Index(last, <<" ">>)
        lineStr == IF spaceIdx > 0 THEN Upto(last, spaceIdx) ELSE last
        parsed == Atoi(lineStr)
    IN  IF parsed.ok THEN [found |-> TRUE, fileName |-> filePath, lineNumber |-> parsed.n]
        ELSE NoFrame

\* lines 207-223 for an accepted path: parse the text after the last ":"
parseFrame(parts, filePath) ==
    LET last == TrimSpace(parts[Len(parts)])
        spaceIdx == Index(last, <<" ">>)
        lineStr == IF spaceIdx > 0 THEN Upto(last, spaceIdx) ELSE last
        parsed == Atoi(lineStr)
        lastSlash == LastIndex(filePath, <<"/">>)
    IN  IF parsed.ok
        THEN [found |-> TRUE,
              fileName |-> IF lastSlash >= 0 THEN From(filePath, lastSlash + 1) ELSE filePath,
              lineNumber |-> parsed.n]
        ELSE NoFrame

\* one iteration of the loop body on lines[i] (i is Go's 0-based index):
\* found = TRUE when the iteration assigns fileName/lineNumber and breaks
frameAt(lines, i) ==
    LET line == lines[i + 1]
    IN  IF HasPrefix(line, GoroutinePrefix) THEN NoFrame
        ELSE IF ~(Contains(line, GoSuffix) /\ i > 0) THEN NoFrame
        ELSE LET prevLine == lines[i]
             IN  IF \E c \in SkippedCallers : Contains(prevLine, c) THEN NoFrame
                 ELSE LET trimmedLine == TrimSpace(line)
                          parts == Split(trimmedLine, ":")
                      IN  IF Len(parts) >= 2
                          THEN LET filePath ==
                                      TrimSpace(Join(SubSeq(parts, 1, Len(parts) - 1), <<":">>))
                               IN  IF \E p \in SkippedPaths : Contains(filePath, p)
                                   THEN NoFrame
                                   ELSE parseFrame(parts, filePath)
                          ELSE NoFrame

\* a variant without the break: a later frame overrides an earlier one
locateFrameLast(trace) ==
    LET lines == Split(trace, "\n")
        frames == [i \in 0..(Len(lines) - 1) |-> frameAt(lines, i)]
        hits == {i \in DOMAIN frames : frames[i].found}
    IN  IF hits = {} THEN NoFrame
        ELSE frames[CHOOSE i \in hits : \A j \in hits : i >= j]

\* the loop: the first iteration that breaks decides; none leaves the zero values
locateFrame(trace) ==
    LET lines == Split(trace, "\n")
        frames == [i \in 0..(Len(lines) - 1) |-> frameAt(lines, i)]
        hits == {i \in DOMAIN frames : frames[i].found}
    IN  IF hits = {} THEN NoFrame
        ELSE frames[CHOOSE i \in hits : \A j \in hits : i <= j]

(***************************************************************************)
(* sendErrorToEndpoint: escaping and payload (lines 228-272)               *)
(***************************************************************************)
EscBackslash == Chars("\\\\")
EscQuote == Chars("\\\"")
EscNewline == Chars("\\n")
EscReturn == Chars("\\r")
EscTab == Chars("\\t")

\* lines 229-233
escapeStackTrace(t) ==
    LET s1 == ReplaceAll(t, "\\", EscBackslash)
        s2 == ReplaceAll(s1, "\"", EscQuote)
        s3 == ReplaceAll(s2, "\n", EscNewline)
        s4 == ReplaceAll(s3, "\r", EscReturn)
    IN  ReplaceAll(s4, "\t", EscTab)

\* line 235
escapeMessage(m) == ReplaceAll(ReplaceAll(m, "\\", EscBackslash), "\"", EscQuote)

Null == Chars("null")

Quoted(s) == <<"\"">> \o s \o <<"\"">>

\* lines 238-241
fileJsonOf(fileName) ==
    IF fileName # <<>> THEN Quoted(ReplaceAll(fileName, "\"", EscQuote)) ELSE Null

\* lines 243-246
lineJsonOf(lineNumber) == IF Positive(lineNumber) THEN Itoa(lineNumber) ELSE Null

\* a variant that quotes an absent id
boardIdJsonOfQuoted(id) == Quoted(id)

\* lines 260-263
boardIdJsonOf(id) == IF id = <<>> THEN Null ELSE Quoted(id)

\* time.Now().UTC().Format(time.RFC3339): the clock is outside the model
Timestamp == Chars("2024-01-01T00:00:00Z")

\* the arguments of fmt.Sprintf, in order (lines 260-271)
payloadArgs(id, r, e, trace, frame) ==
    [boardId |-> boardIdJsonOf(id),
     timestamp |-> Timestamp,
     file |-> fileJsonOf(frame.fileName),
     line |-> lineJsonOf(frame.lineNumber),
     stackTrace |-> escapeStackTrace(trace),
     message |-> escapeMessage(e),
     requestPath |-> r.path,
     requestMethod |-> r.method,
     userAgent |-> r.userAgent]

\* the format string (lines 248-259), cut at its verbs
FormatPieces ==
    <<Chars("{\n        \"boardId\":"),
      Chars(",\n        \"timestamp\":\""),
      Chars("\",\n        \"file\":"),
      Chars(",\n        \"line\":"),
      Chars(",\n        \"stackTrace\":\""),
      Chars("\",\n        \"message\":\""),
      Chars("\",\n        \"exceptionType\":\"panic\",\n        \"requestPath\":\""),
      Chars("\",\n        \"requestMethod\":\""),
      Chars("\",\n        \"userAgent\":\""),
      Chars("\"\n    }")>>

\* fmt.Sprintf of the format string with these arguments
formatPayload(a) ==
    FormatPieces[1] \o a.boardId \o FormatPieces[2] \o a.timestamp
    \o FormatPieces[3] \o a.file \o FormatPieces[4] \o a.line
    \o FormatPieces[5] \o a.stackTrace \o FormatPieces[6] \o a.message
    \o FormatPieces[7] \o a.requestPath \o FormatPieces[8] \o a.requestMethod
    \o FormatPieces[9] \o a.userAgent \o FormatPieces[10]

(***************************************************************************)
(* http.ResponseWriter as the middleware uses it: the status line and the  *)
(* headers go out with the first WriteHeader or Write; later WriteHeader   *)
(* calls and later changes of the header map do not reach the caller.      *)
(***************************************************************************)
NoType == <<>>
JsonType == Chars("application/json")

FreshResponse ==
    [header |-> NoType, wroteHeader |-> FALSE, status |-> 0, sentType |-> NoType, body |-> <<>>]

\* w.Header().Set("Content-Type", v)
SetContentType(w, v) == [w EXCEPT !.header = v]

\* w.WriteHeader(code)
WriteHeader(w, code) ==
    IF w.wroteHeader THEN w
    ELSE [w EXCEPT !.wroteHeader = TRUE, !.status = code, !.sentType = w.header]

\* w.Write(b), as fmt.Fprintf(w, ...) calls it
Write(w, b) == [WriteHeader(w, StatusOK) EXCEPT !.body = @ \o b]

(***************************************************************************)
(* The wrapped handler, next.ServeHTTP(w, r) of line 79.  The middleware   *)
(* wraps an arbitrary handler; the model routes by path to handlers that   *)
(* return normally, panic before writing, or panic after writing.          *)
(***************************************************************************)
DivisionByZero == Chars("division by zero")
QuotedFailure == Chars("bad \"id\"")

\* a machinery frame, then the application frame app.go:42
TraceApp == Chars("panic(0x1)\n\t/go/p.go:8 +0x2\nmain.get()\n\t/srv/app.go:42 +0x1d\n")

\* a machinery frame only
TraceBare == Chars("goroutine 9 [running]:\npanic(0x1)\n\t/go/p.go:8 +0x2\n")

HandlerBody == Chars("{\"status\":")

PathA == Chars("/a")
PathB == Chars("/b")
PathC == Chars("/c")
PathD == Chars("/d")
PathE == Chars("/e")
PathF == Chars("/f")
PathG == Chars("/g")

\* code is the status the handler gives to WriteHeader before it writes, 0 when
\* it leaves the status to its first Write
Quiet == [writes |-> FALSE, code |-> 0, panics |-> FALSE, value |-> <<>>, trace |-> <<>>]

\* the handler a path is routed to
HandlerOf(path) ==
    IF path = PathA THEN [Quiet EXCEPT !.panics = TRUE, !.value = DivisionByZero, !.trace = TraceApp]
    ELSE IF path = PathB THEN [Quiet EXCEPT !.panics = TRUE, !.value = DivisionByZero, !.trace = TraceBare]
    ELSE IF path = PathC THEN [Quiet EXCEPT !.writes = TRUE, !.panics = TRUE, !.value = DivisionByZero, !.trace = TraceApp]
    ELSE IF path = PathD THEN [Quiet EXCEPT !.panics = TRUE, !.value = QuotedFailure, !.trace = TraceBare]
    ELSE IF path = PathE THEN [Quiet EXCEPT !.writes = TRUE, !.code = StatusCreated]
    ELSE IF path = PathF THEN Quiet
    ELSE IF path = PathG THEN [Quiet EXCEPT !.writes = TRUE, !.panics = TRUE, !.value = DivisionByZero, !.trace = TraceBare]
    ELSE [Quiet EXCEPT !.writes = TRUE]

DeadBeef == Chars("deadbeefdeadbeefdeadbeef")

NoRequest ==
    [query |-> <<>>, header |-> <<>>, host |-> <<>>, path |-> <<>>, method |-> <<>>,
     userAgent |-> <<>>]

RequestTo(path) ==
    [NoRequest EXCEPT !.host = Chars("localhost"), !.path = Chars(path),
                      !.method = Chars("GET"), !.userAgent = Chars("curl")]

FlowRequests ==
    {[RequestTo("/a") EXCEPT !.header = DeadBeef], RequestTo("/b"), RequestTo("/c"),
     RequestTo("/d"), RequestTo("/ok")}

NoEnv == [BOARD_ID |-> <<>>, RUNTIME_ERROR_ENDPOINT_URL |-> <<>>]

FlowEnvs ==
    {NoEnv,
     [NoEnv EXCEPT !.RUNTIME_ERROR_ENDPOINT_URL = Chars("http://t/e")],
     [NoEnv EXCEPT !.RUNTIME_ERROR_ENDPOINT_URL = Chars("http://t/\n")]}

Reqs == 1..NumRequests

(***************************************************************************)
(* The goroutine started by "go sendErrorToEndpoint(...)" (line 67)        *)
(***************************************************************************)
\* state: none, spawned (started by the go statement, not yet run), sending
\* (inside client.Do), or how it ended; frame (fileName, lineNumber), fields (the
\* Sprintf arguments) and payload are its locals while it runs; posts counts the
\* calls of client.Do
NoFields ==
    [boardId |-> <<>>, timestamp |-> <<>>, file |-> <<>>, line |-> <<>>,
     stackTrace |-> <<>>, message |-> <<>>, requestPath |-> <<>>, requestMethod |-> <<>>,
     userAgent |-> <<>>]

NoTask ==
    [state |-> "none", frame |-> NoFrame, fields |-> NoFields, payload |-> <<>>, posts |-> 0]

Spawned == [NoTask EXCEPT !.state = "spawned"]

\* the bytes below 0x20 and the byte 0x7F (net/url stringContainsCTLByte)
ControlChars ==
    {"00", "01", "02", "03", "04", "05", "06", "07", "08", "\t", "\n", "0B", "\f", "\r", "0E",
     "0F", "10", "11", "12", "13", "14", "15", "16", "17", "18", "19", "1A", "1B", "1C", "1D",
     "1E", "1F", "7F"}

AlphaNumeric == Range(LowerAlphabet) \cup Range(UpperAlphabet) \cup Range(Digits)

\* net/url getScheme: err for a URL that starts with a colon, else the scheme
\* (empty when there is none) and the rest
getScheme(rawURL) ==
    LET SchemeChars == AlphaNumeric \cup {"+", "-", "."}
        stops == {k \in 1..Len(rawURL) : rawURL[k] \notin SchemeChars}
        k == CHOOSE i \in stops : \A j \in stops : i <= j
        none == [err |-> FALSE, scheme |-> <<>>, rest |-> rawURL]
    IN  IF rawURL = <<>> \/ rawURL[1] \in Range(Digits) \cup {"+", "-", "."} \/ stops = {}
        THEN none
        ELSE IF rawURL[k] # ":" THEN none
        ELSE IF k = 1 THEN [err |-> TRUE, scheme |-> <<>>, rest |-> <<>>]
        ELSE [err |-> FALSE, scheme |-> Upto(rawURL, k - 1), rest |-> From(rawURL, k)]

\* net/url unescape, what every mode checks: each "%" starts "%XX" with hex digits
escapesOk(s) ==
    \A i \in 1..Len(s) :
        s[i] = "%" => (i + 2 <= Len(s) /\ s[i + 1] \in HexDigits /\ s[i + 2] \in HexDigits)

\* net/url shouldEscape(c, encodeHost) is false for these ASCII characters
HostChars == AlphaNumeric \cup Range(Chars("-_.~!$&'()*+,;=:[]<>\""))

\* net/url shouldEscape(v, encodeHost) for the byte with value v
shouldEscapeHost(v) == v < 32 \/ v > 126 \/ Ascii[v - 31] \notin HostChars

\* net/url unescape(s, mode) returns an error, for the modes encodeHost and
\* encodeZone: besides the escapes, a byte below 0x80 outside HostChars is an
\* error; encodeHost accepts %25 and the escapes of bytes from 0x80 only,
\* encodeZone accepts %25, %20 and the escapes of the characters of HostChars
unescapeFails(s, zone) ==
    \/ ~escapesOk(s)
    \/ \E i \in 1..Len(s) :
           IF s[i] = "%"
           THEN LET esc == SubSeq(s, i, i + 2)
                IN  /\ esc # Chars("%25")
                    /\ IF zone
                       THEN LET v == unhex(esc[2]) * 16 + unhex(esc[3])
                            IN  v # 32 /\ shouldEscapeHost(v)
                       ELSE unhex(esc[2]) < 8
           ELSE ~IsHigh(s[i]) /\ s[i] \notin HostChars

\* net/url validOptionalPort
validOptionalPort(port) ==
    port = <<>> \/ (port[1] = ":" /\ \A k \in 2..Len(port) : port[k] \in Range(Digits))

\* net/url parseHost returns an error
parseHostFails(host) ==
    IF HasPrefix(host, <<"[">>)
    THEN LET i == LastIndex(host, <<"]">>)
             zone == Index(Upto(host, i), Chars("%25"))
         IN  IF i < 0 THEN TRUE
             ELSE IF ~validOptionalPort(From(host, i + 1)) THEN TRUE
             ELSE IF zone >= 0
                  THEN \/ unescapeFails(Upto(host, zone), FALSE)
                       \/ unescapeFails(Slice(host, zone, i), TRUE)
                       \/ unescapeFails(From(host, i), FALSE)
                  ELSE unescapeFails(host, FALSE)
    ELSE LET i == LastIndex(host, <<":">>)
         IN  \/ i # -1 /\ ~validOptionalPort(From(host, i))
             \/ unescapeFails(host, FALSE)

\* net/url validUserinfo
UserinfoChars == AlphaNumeric \cup Range(Chars("-._:~!$&'()*+,;=%@"))

\* net/url parseAuthority returns an error
parseAuthorityFails(authority) ==
    LET i == LastIndex(authority, <<"@">>)
        userinfo == Upto(authority, i)
    IN  IF i < 0 THEN parseHostFails(authority)
        ELSE \/ parseHostFails(From(authority, i + 1))
             \/ \E k \in 1..Len(userinfo) : userinfo[k] \notin UserinfoChars
             \/ ~escapesOk(userinfo)

\* net/url parse(rawURL, false) returns an error; rawURL is the text before "#"
parseFails(rawURL) ==
    LET s == getScheme(rawURL)
        q == Index(s.rest, <<"?">>)
        rest == IF q >= 0 THEN Upto(s.rest, q) ELSE s.rest
        slash == Index(rest, <<"/">>)
        segment == IF slash >= 0 THEN Upto(rest, slash) ELSE rest
        after == From(rest, 2)
        i == Index(after, <<"/">>)
    IN  IF \E k \in 1..Len(rawURL) : rawURL[k] \in ControlChars THEN TRUE
        ELSE IF rawURL = <<"*">> THEN FALSE
        ELSE IF s.err THEN TRUE
        ELSE IF ~HasPrefix(rest, <<"/">>) /\ s.scheme # <<>> THEN FALSE
        ELSE IF ~HasPrefix(rest, <<"/">>) /\ Contains(segment, <<":">>) THEN TRUE
        ELSE IF /\ s.scheme # <<>> \/ ~HasPrefix(rest, Chars("///"))
                /\ HasPrefix(rest, Chars("//"))
             THEN \/ parseAuthorityFails(IF i >= 0 THEN Upto(after, i) ELSE after)
                  \/ ~escapesOk(IF i >= 0 THEN From(after, i) ELSE <<>>)
             ELSE ~escapesOk(rest)

\* net/url Parse returns an error: the fragment is cut off first
urlParseFails(url) ==
    LET h == Index(url, <<"#">>)
    IN  IF h < 0 THEN parseFails(url)
        ELSE parseFails(Upto(url, h)) \/ ~escapesOk(From(url, h + 1))

\* http.NewRequest("POST", url, body) returns an error when url.Parse rejects the URL
newRequestFails(url) == urlParseFails(url)

\* client.Do returns an error (network failure, timeout) or a response
DoOutcomes == {"neterr", "timeout", "non200", "ok200"}

Finished == {"reqfail"} \cup DoOutcomes

(***************************************************************************)
(* panicRecoveryMiddleware                                                 *)
(***************************************************************************)
\* line 75
BodyHead ==
    Chars("{\"error\":\"An error occurred while processing your request\",\"message\":\"")
BodyTail == Chars("\"}")

errorBody(e) == BodyHead \o e \o BodyTail

\* a request enters the middleware, which calls next.ServeHTTP (line 79)
Arrive(i, r) ==
    /\ pc[i] = "idle"
    /\ pc' = [pc EXCEPT ![i] = "handler"]
    /\ req' = [req EXCEPT ![i] = r]
    /\ UNCHANGED <<env, resp, err, stackTrace, boardId, task>>

\* the wrapped handler writes its response
HandlerWrite(i) ==
    /\ pc[i] = "handler"
    /\ HandlerOf(req[i].path).writes
    /\ ~resp[i].wroteHeader
    /\ resp' = [resp EXCEPT ![i] =
                    LET h == HandlerOf(req[i].path)
                        w == SetContentType(@, JsonType)
                    IN  Write(IF h.code > 0 THEN WriteHeader(w, h.code) ELSE w, HandlerBody)]
    /\ UNCHANGED <<env, req, pc, err, stackTrace, boardId, task>>

\* a variant whose deferred function answers without looking at recover()
HandlerReturnAnswers(i) ==
    /\ pc[i] = "handler"
    /\ ~HandlerOf(req[i].path).panics
    /\ HandlerOf(req[i].path).writes => resp[i].wroteHeader
    /\ resp' = [resp EXCEPT ![i] =
                    Write(WriteHeader(SetContentType(@, JsonType), StatusInternalServerError),
                          errorBody(err[i]))]
    /\ pc' = [pc EXCEPT ![i] = "done"]
    /\ UNCHANGED <<env, req, err, stackTrace, boardId, task>>

\* the wrapped handler returns; recover() yields nil and the deferred function does nothing
HandlerReturn(i) ==
    /\ pc[i] = "handler"
    /\ ~HandlerOf(req[i].path).panics
    /\ HandlerOf(req[i].path).writes => resp[i].wroteHeader
    /\ pc' = [pc EXCEPT ![i] = "done"]
    /\ UNCHANGED <<env, req, resp, err, stackTrace, boardId, task>>

\* the wrapped handler panics; the deferred function runs lines 47-70:
\* recover, runtime.Stack, extractBoardId, and the go statement when the endpoint is set.
\* When extractBoardId panics (line 57) the deferred function ends there: the
\* panic leaves the middleware, net/http closes the connection, and neither the
\* go statement nor the error response is reached
HandlerPanic(i) ==
    LET h == HandlerOf(req[i].path)
        url == env.RUNTIME_ERROR_ENDPOINT_URL
        id == extractBoardId(req[i], env)
    IN  /\ pc[i] = "handler"
        /\ h.panics
        /\ h.writes => resp[i].wroteHeader
        /\ err' = [err EXCEPT ![i] = h.value]
        /\ stackTrace' = [stackTrace EXCEPT ![i] = h.trace]
        /\ boardId' = [boardId EXCEPT ![i] = IF id = OutOfRange THEN @ ELSE id]
        /\ task' = [task EXCEPT ![i] =
                        IF id # OutOfRange /\ url # <<>> THEN Spawned ELSE @]
        /\ pc' = [pc EXCEPT ![i] = IF id = OutOfRange THEN "aborted" ELSE "respond"]
        /\ UNCHANGED <<env, req, resp>>

\* a variant that joins the goroutine before it answers
RespondAfterDispatch(i) ==
    /\ pc[i] = "respond"
    /\ task[i].state \in {"none"} \cup Finished
    /\ resp' = [resp EXCEPT ![i] =
                    Write(WriteHeader(SetContentType(@, JsonType), StatusInternalServerError),
                          errorBody(err[i]))]
    /\ pc' = [pc EXCEPT ![i] = "done"]
    /\ UNCHANGED <<env, req, err, stackTrace, boardId, task>>

\* lines 73-75: the error response; the deferred function and the middleware return
Respond(i) ==
    /\ pc[i] = "respond"
    /\ resp' = [resp EXCEPT ![i] =
                    Write(WriteHeader(SetContentType(@, JsonType), StatusInternalServerError),
                          errorBody(err[i]))]
    /\ pc' = [pc EXCEPT ![i] = "done"]
    /\ UNCHANGED <<env, req, err, stackTrace, boardId, task>>

(***************************************************************************)
(* sendErrorToEndpoint as a goroutine                                      *)
(***************************************************************************)
\* lines 141-284: locate the frame, build the payload, create the request; when
\* that works, client.Do starts the one POST.  The arguments of the go statement
\* are the middleware's endpoint URL, boardId, r, err and stackTrace
Build(i) ==
    LET t == task[i]
        frame == locateFrame(stackTrace[i])
        fields == payloadArgs(boardId[i], req[i], err[i], stackTrace[i], frame)
    IN  /\ t.state = "spawned"
        /\ task' = [task EXCEPT ![i] =
                        IF newRequestFails(env.RUNTIME_ERROR_ENDPOINT_URL)
                        THEN [t EXCEPT !.state = "reqfail"]
                        ELSE [t EXCEPT !.state = "sending", !.frame = frame,
                                       !.fields = fields,
                                       !.payload = formatPayload(fields),
                                       !.posts = @ + 1]]
        /\ UNCHANGED <<env, req, pc, resp, err, stackTrace, boardId>>

\* a variant that tells the caller when the POST did not get a 200
DoReturnsEscalating(i, outcome) ==
    /\ task[i].state = "sending"
    /\ task' = [task EXCEPT ![i] = [@ EXCEPT !.state = outcome, !.frame = NoFrame,
                                              !.fields = NoFields,
                                              !.payload = <<>>]]
    /\ resp' = [resp EXCEPT ![i] = IF outcome = "ok200" THEN @ ELSE Write(@, Chars(outcome))]
    /\ UNCHANGED <<env, req, pc, err, stackTrace, boardId>>

\* a variant that starts over when the POST did not get a 200
DoReturnsRetrying(i, outcome) ==
    /\ task[i].state = "sending"
    /\ task' = [task EXCEPT ![i] =
                    [@ EXCEPT !.state = IF outcome = "ok200" THEN outcome ELSE "spawned",
                              !.frame = NoFrame, !.fields = NoFields, !.payload = <<>>]]
    /\ UNCHANGED <<env, req, pc, resp, err, stackTrace, boardId>>

\* lines 284-297: client.Do returns, the outcome is logged, the goroutine ends
DoReturns(i, outcome) ==
    /\ task[i].state = "sending"
    /\ task' = [task EXCEPT ![i] = [@ EXCEPT !.state = outcome, !.frame = NoFrame,
                                              !.fields = NoFields,
                                              !.payload = <<>>]]
    /\ UNCHANGED <<env, req, pc, resp, err, stackTrace, boardId>>

(***************************************************************************)
(* The server: requests served concurrently, each report in its goroutine  *)
(***************************************************************************)
Idle ==
    /\ req = [i \in Reqs |-> NoRequest]
    /\ pc = [i \in Reqs |-> "idle"]
    /\ resp = [i \in Reqs |-> FreshResponse]
    /\ err = [i \in Reqs |-> <<>>]
    /\ stackTrace = [i \in Reqs |-> <<>>]
    /\ boardId = [i \in Reqs |-> <<>>]
    /\ task = [i \in Reqs |-> NoTask]

Init == env \in FlowEnvs /\ Idle

Next ==
    \E i \in Reqs :
        \/ \E r \in FlowRequests : Arrive(i, r)
        \/ HandlerWrite(i)
        \/ HandlerReturn(i)
        \/ HandlerPanic(i)
        \/ Respond(i)
        \/ Build(i)
        \/ \E o \in DoOutcomes : DoReturns(i, o)

Spec == Init /\ [][Next]_vars

\* The server with the endpoint configured, serving requests whose handlers
\* panic.  A goroutine that can run does run: the handler and the deferred
\* function of each request keep taking their steps.  Nothing is assumed of the
\* report's goroutine, whose client.Do may return late or never be seen to return.
DispatchEnvs == {e \in FlowEnvs : e.RUNTIME_ERROR_ENDPOINT_URL # <<>>}

PanicRequests == {[RequestTo("/a") EXCEPT !.header = DeadBeef], RequestTo("/c")}

\* the POST is answered, or times out, or stays in flight
DispatchOutcomes == {"timeout", "ok200"}

InitDispatch == env \in DispatchEnvs /\ Idle

NextDispatch ==
    \E i \in Reqs :
        \/ \E r \in PanicRequests : Arrive(i, r)
        \/ HandlerWrite(i)
        \/ HandlerPanic(i)
        \/ Respond(i)
        \/ Build(i)
        \/ \E o \in DispatchOutcomes : DoReturns(i, o)

FairSpec ==
    /\ InitDispatch /\ [][NextDispatch]_vars
    /\ \A i \in Reqs :
           WF_vars(HandlerWrite(i)) /\ WF_vars(HandlerPanic(i)) /\ WF_vars(Respond(i))

\* The server in front of handlers that return (after writing with the default
\* status, after writing with status 201, without writing) and handlers that
\* panic (before and after writing), under every environment and every way the
\* report can end.
ServeRequests ==
    {[RequestTo("/a") EXCEPT !.header = DeadBeef], RequestTo("/c"), RequestTo("/e"),
     RequestTo("/f"), RequestTo("/ok")}

NextServe ==
    \E i \in Reqs :
        \/ \E r \in ServeRequests : Arrive(i, r)
        \/ HandlerWrite(i)
        \/ HandlerReturn(i)
        \/ HandlerPanic(i)
        \/ Respond(i)
        \/ Build(i)
        \/ \E o \in DoOutcomes : DoReturns(i, o)

SpecServe == Init /\ [][NextServe]_vars

(***************************************************************************)
(* extractBoardId over requests and environments that exercise every       *)
(* source: the deferred function runs on a request whose handler panics.   *)
(***************************************************************************)
HexText == Chars("0123456789abcdefABCDEF0a1B2c3D4e")
OtherHexText == Chars("fedcba9876543210FEDCBAf9E8d7C6b5")

\* the first n bytes of HexText, the k-th replaced by the non-hex "g" when k > 0
HexRun(n, k) == [j \in 1..n |-> IF j = k THEN "g" ELSE HexText[j]]

HostTails ==
    LET runs == {HexRun(n, 0) : n \in (BoardIdLen - MaxShort)..(BoardIdLen + MaxExtra)}
                    \cup {HexRun(BoardIdLen, 1), HexRun(BoardIdLen + 1, BoardIdLen),
                          HexRun(BoardIdLen + 1, BoardIdLen + 1)}
    IN  {run \o suffix : run \in runs, suffix \in {<<>>, Chars(".up.railway.app")}}

HostMarkers == {Chars("webapi"), Chars("WebApi"), Chars("WEBAPI")}

HostPrefixes == {<<>>, Chars("x-"), Kelvin, Chars("webapi-")}

\* hosts with a rune whose lower-case form is shorter (the Ohm sign, 3 bytes
\* to 2) or longer (U+023A, 2 bytes to 3), and with a byte that is not UTF-8
WideHosts ==
    {<<"E2", "84", "A6">> \o Marker \o HexRun(BoardIdLen, 0),
     <<"C8", "BA">> \o Marker \o HexRun(BoardIdLen + 1, 0),
     <<"FF">> \o Marker}

ResolveHosts ==
    {<<>>, Chars("localhost"), Chars("api.example.com")}
        \cup {pre \o m \o tail : pre \in HostPrefixes, m \in HostMarkers, tail \in HostTails}
        \cup WideHosts

QueryId == Chars("q-board")
EnvId == Chars("env-board")

ResolveRequests ==
    {[RequestTo("/a") EXCEPT !.query = q, !.header = h, !.host = host] :
        q \in {<<>>, QueryId}, h \in {<<>>, DeadBeef}, host \in ResolveHosts}

ResolveUrls ==
    {<<>>, Chars("http://t/e"),
     Chars("https://webapi") \o SubSeq(OtherHexText, 1, BoardIdLen) \o Chars(".up.railway.app/e"),
     Chars("https://webapi-") \o SubSeq(OtherHexText, 1, BoardIdLen) \o Chars("/e"),
     Chars("http://") \o <<"FF">> \o Marker}

ResolveEnvs ==
    {[BOARD_ID |-> b, RUNTIME_ERROR_ENDPOINT_URL |-> u] : b \in {<<>>, EnvId}, u \in ResolveUrls}

\* request 1 is inside its handler, the others have not arrived
InHandler(r) ==
    /\ req = [i \in Reqs |-> IF i = 1 THEN r ELSE NoRequest]
    /\ pc = [i \in Reqs |-> IF i = 1 THEN "handler" ELSE "idle"]
    /\ resp = [i \in Reqs |-> FreshResponse]
    /\ err = [i \in Reqs |-> <<>>]
    /\ stackTrace = [i \in Reqs |-> <<>>]
    /\ boardId = [i \in Reqs |-> <<>>]
    /\ task = [i \in Reqs |-> NoTask]

InitResolve == env \in ResolveEnvs /\ \E r \in ResolveRequests : InHandler(r)

NextResolve == HandlerPanic(1)

SpecResolve == InitResolve /\ [][NextResolve]_vars

(***************************************************************************)
(* Properties of extractBoardId, checked under SpecResolve                 *)
(***************************************************************************)
\* the first element of vals that is not empty, the empty string when none is
FirstNonEmpty(vals) ==
    IF \A k \in 1..Len(vals) : vals[k] = <<>> THEN <<>>
    ELSE vals[CHOOSE k \in 1..Len(vals) :
                  vals[k] # <<>> /\ \A m \in 1..(k - 1) : vals[m] = <<>>]

\* extractBoardId has returned
Recovered(i) == pc[i] = "respond"

\* extractBoardId has returned or has panicked
Resolved(i) == pc[i] \in {"respond", "aborted"}

\* C1: for every combination of sources extractBoardId returns the value of
\* the highest-priority source that yields a value, in the order query
\* parameter, header, BOARD_ID, host pattern, endpoint-URL pattern, and the
\* empty string when none does; with both a query parameter and a header
\* it returns the query parameter.
ResolverPriority ==
    \A i \in Reqs :
        Resolved(i) =>
            /\ Recovered(i)
            /\ boardId[i] = FirstNonEmpty(<<req[i].query, req[i].header, env.BOARD_ID,
                                            fromHost(req[i]), fromEndpointUrl(env)>>)
            /\ (req[i].query # <<>> /\ req[i].header # <<>>) => boardId[i] = req[i].query

\* the order of the sources whenever extractBoardId returns
ResolverPriorityOnReturn ==
    \A i \in Reqs :
        Recovered(i) =>
            /\ boardId[i] = FirstNonEmpty(<<req[i].query, req[i].header, env.BOARD_ID,
                                            fromHost(req[i]), fromEndpointUrl(env)>>)
            /\ (req[i].query # <<>> /\ req[i].header # <<>>) => boardId[i] = req[i].query

\* every source offers a value and the query parameter wins
ResolverPriorityReached ==
    /\ Recovered(1)
    /\ req[1].query # <<>> /\ req[1].header # <<>> /\ env.BOARD_ID # <<>>
    /\ fromHost(req[1]) # <<>> /\ fromEndpointUrl(env) # <<>>
    /\ boardId[1] = QueryId

HexChars == Range(Chars("0123456789")) \cup Range(Chars("abcdef")) \cup Range(Chars("ABCDEF"))

IsAscii(s) == \A j \in 1..Len(s) : ~IsHigh(s[j])

\* "webapi" in any letter case sits at 0-based offset k of s
MarkerAt(s, k) ==
    /\ k + MarkerLen <= Len(s)
    /\ \A m \in 1..MarkerLen : s[k + m] \in {Marker[m], UpperAlphabet[CHOOSE c \in 1..26 : LowerAlphabet[c] = Marker[m]]}

AfterMarker(s, k) == SubSeq(s, k + MarkerLen + 1, Len(s))

\* the marker at offset k is immediately followed by 24 hexadecimal characters
HexFollows(s, k) ==
    /\ MarkerAt(s, k)
    /\ Len(AfterMarker(s, k)) >= BoardIdLen
    /\ \A m \in 1..BoardIdLen : AfterMarker(s, k)[m] \in HexChars

IdAt(s, k) == SubSeq(AfterMarker(s, k), 1, BoardIdLen)

MarkerOffsets(s) == {k \in 0..Len(s) : MarkerAt(s, k)}

FirstMarker(s) == CHOOSE k \in MarkerOffsets(s) : \A m \in MarkerOffsets(s) : k <= m

\* what the pattern yields when only the leftmost marker counts
LeftmostId(s) ==
    IF MarkerOffsets(s) # {} /\ HexFollows(s, FirstMarker(s)) THEN IdAt(s, FirstMarker(s))
    ELSE <<>>

OnlyHostAndUrl(i) ==
    Resolved(i) /\ req[i].query = <<>> /\ req[i].header = <<>> /\ env.BOARD_ID = <<>>

\* C2: with no query, header or environment id, whenever the host contains
\* the marker (in any letter case) immediately followed by at least 24
\* hexadecimal characters, extractBoardId returns exactly those 24
\* characters; when the marker is there and what follows it is too short or
\* not hexadecimal, the host yields nothing and the result is what the
\* endpoint URL yields.
HostPatternAnyMarker ==
    \A i \in Reqs :
        OnlyHostAndUrl(i) =>
            /\ \A k \in MarkerOffsets(req[i].host) :
                   HexFollows(req[i].host, k) => boardId[i] = IdAt(req[i].host, k)
            /\ (\A k \in MarkerOffsets(req[i].host) : ~HexFollows(req[i].host, k)) =>
                   boardId[i] = fromEndpointUrl(env)

\* what the code does compute: with no query, header or environment id and an ASCII host,
\* when the leftmost occurrence of the marker (in any letter case) is
\* immediately followed by at least 24 hexadecimal characters the result is
\* exactly those 24 characters; when there is no marker, or fewer than 24
\* characters follow the leftmost one, or one of the 24 is not hexadecimal,
\* the host yields nothing and the result is what the endpoint URL yields.
HostPatternLeftmostMarker ==
    \A i \in Reqs :
        (OnlyHostAndUrl(i) /\ IsAscii(req[i].host)) =>
            boardId[i] = IF LeftmostId(req[i].host) # <<>> THEN LeftmostId(req[i].host)
                         ELSE LeftmostId(env.RUNTIME_ERROR_ENDPOINT_URL)

\* a host with upper-case marker and hexadecimal digits of both cases resolves
HostPatternReached ==
    /\ OnlyHostAndUrl(1)
    /\ req[1].host = Chars("WebApi") \o HexRun(BoardIdLen, 0) \o Chars(".up.railway.app")
    /\ boardId[1] = HexRun(BoardIdLen, 0)

(***************************************************************************)
(* sendErrorToEndpoint over traces made of frames: the goroutine has been  *)
(* started with the trace and runs up to client.Do.                        *)
(***************************************************************************)
GoroutineHeader == Chars("goroutine 7 [running]:\n")

Frame(descriptor, location) == descriptor \o <<"\n", "\t">> \o location \o <<"\n">>

MachineryDescriptors ==
    {Chars("main.panicRecoveryMiddleware.func1.1()"), Chars("main.sendErrorToEndpoint(...)"),
     Chars("runtime.Stack(...)"), Chars("runtime.gopanic(...)"), Chars("panic({0x1, 0x2})"),
     Chars("created by net/http.(*Server).Serve")}

\* machinery frames, located in an application file and in a runtime file
MachineryFrames ==
    {Frame(d, Chars("/app/main.go:53 +0x9c")) : d \in MachineryDescriptors}
        \cup {Frame(Chars("panic({0x1, 0x2})"), Chars("/opt/go/src/runtime/panic.go:884 +0x212"))}

\* frames of other callers under each standard library, runtime or toolchain path
LibraryFrames ==
    {Frame(Chars("net/http.HandlerFunc.ServeHTTP(...)"), l) :
        l \in {Chars("/usr/local/go/src/net/http/server.go:2109 +0x2f"),
               Chars("/home/u/mise/installs/go/1.22/src/fmt/print.go:10 +0x1"),
               Chars("/opt/go/src/runtime/proc.go:250 +0x1"),
               Chars("/opt/go/src/net/fd.go:7 +0x1"),
               Chars("/opt/go/src/syscall/sys.go:9 +0x1"),
               Chars("/opt/go/src/internal/poll/fd.go:3 +0x1"),
               Chars("/opt/go/src/database/sql/sql.go:12 +0x1"),
               Chars("/usr/lib/go/src/fmt/print.go:5 +0x1"),
               Chars("/x/runtime/debug.go:4 +0x1")}}

\* the sequences of at most n elements of S, each concatenated
Concats(S, n) == UNION {{Flatten(f, 1, k) : f \in [1..k -> S]} : k \in 0..n}

Headers == {Flatten([j \in 1..h |-> GoroutineHeader], 1, h) : h \in 0..MaxHeaders}

\* traces with machinery and standard library frames only
SkippedOnlyTraces ==
    {h \o t : h \in Headers, t \in Concats(MachineryFrames \cup LibraryFrames, MaxFrames)}

\* application frames "<dir><file>:<line> +<offset>"
AppLocations ==
    {[dir |-> Chars("/srv/"), file |-> Chars("app.go"), line |-> 42],
     [dir |-> <<>>, file |-> Chars("main.go"), line |-> 7],
     [dir |-> Chars("C:/w/"), file |-> Chars("h.go"), line |-> 120],
     [dir |-> Chars("/my app/"), file |-> Chars("x y.go"), line |-> 9]}

AppFrame(a) ==
    Frame(Chars("main.getItem(...)"), a.dir \o a.file \o <<":">> \o Decimal(a.line) \o Chars(" +0x1d"))

\* goroutine header lines followed by machinery frames
MachineryPrefixes == {h \o m : h \in Headers, m \in Concats(MachineryFrames, MaxMachinery)}

\* machinery frames followed by exactly one application frame
SingleAppTraces == {p \o AppFrame(a) : p \in MachineryPrefixes, a \in AppLocations}

LocateTraces == SkippedOnlyTraces \cup SingleAppTraces

ReportEnv == [NoEnv EXCEPT !.RUNTIME_ERROR_ENDPOINT_URL = Chars("http://t/e")]

\* request 1 has panicked with value e and trace t was captured; the go statement has run
Reporting(id, e, t) ==
    /\ env = ReportEnv
    /\ req = [i \in Reqs |-> IF i = 1 THEN RequestTo("/a") ELSE NoRequest]
    /\ pc = [i \in Reqs |-> IF i = 1 THEN "respond" ELSE "idle"]
    /\ resp = [i \in Reqs |-> FreshResponse]
    /\ err = [i \in Reqs |-> IF i = 1 THEN e ELSE <<>>]
    /\ stackTrace = [i \in Reqs |-> IF i = 1 THEN t ELSE <<>>]
    /\ boardId = [i \in Reqs |-> IF i = 1 THEN id ELSE <<>>]
    /\ task = [i \in Reqs |-> IF i = 1 THEN Spawned ELSE NoTask]

InitLocate == \E t \in LocateTraces : Reporting(<<>>, DivisionByZero, t)

NextLocate == Build(1)

SpecLocate == InitLocate /\ [][NextLocate]_vars

(***************************************************************************)
(* Properties of the frame-location loop, checked under SpecLocate         *)
(***************************************************************************)
Sending(i) == task[i].state = "sending"

FileNullText == Chars("\"file\":null,")
LineNullText == Chars("\"line\":null,")

\* C3: for every trace whose frames are all recovery-machinery frames or
\* frames under a standard-library, runtime or toolchain path, the loop of
\* sendErrorToEndpoint finds no frame and the report carries file = null
\* and line = null.
SkippedOnlyYieldsNull ==
    \A i \in Reqs :
        (Sending(i) /\ stackTrace[i] \in SkippedOnlyTraces) =>
            /\ task[i].frame = NoFrame
            /\ task[i].fields.file = Null /\ task[i].fields.line = Null
            /\ Contains(task[i].payload, FileNullText)
            /\ Contains(task[i].payload, LineNullText)

\* a header, a machinery frame in an application file, then a frame under /src/net/
SkippedOnlyReached ==
    /\ Sending(1)
    /\ stackTrace[1] = GoroutineHeader
                          \o Frame(Chars("runtime.gopanic(...)"), Chars("/app/main.go:53 +0x9c"))
                          \o Frame(Chars("net/http.HandlerFunc.ServeHTTP(...)"),
                                   Chars("/opt/go/src/net/fd.go:7 +0x1"))
    /\ stackTrace[1] \in SkippedOnlyTraces
    /\ task[1].fields.file = Null /\ task[1].fields.line = Null

\* trace t is machinery frames followed by the application frame a
EndsWithAppFrame(t, a) ==
    LET f == AppFrame(a)
    IN  /\ Len(t) >= Len(f)
        /\ SubSeq(t, Len(t) - Len(f) + 1, Len(t)) = f
        /\ SubSeq(t, 1, Len(t) - Len(f)) \in MachineryPrefixes

\* C4: for every trace of N >= 0 recovery-machinery frames followed by
\* exactly one qualifying application frame "<path>/<file>.go:<line> +<offset>",
\* the locator reports that frame's final path segment as file and its line
\* number as line, whatever N is and however many goroutine header lines
\* precede it.
SingleAppFrameLocated ==
    \A i \in Reqs :
        Sending(i) =>
            \A a \in AppLocations :
                EndsWithAppFrame(stackTrace[i], a) =>
                    /\ task[i].frame = [found |-> TRUE, fileName |-> a.file, lineNumber |-> IntOf(a.line)]
                    /\ task[i].fields.file = Quoted(a.file)
                    /\ task[i].fields.line = Decimal(a.line)

\* the most machinery frames after the most header lines, then /srv/app.go:42
SingleAppFrameReached ==
    /\ Sending(1)
    /\ \E p \in MachineryPrefixes :
           /\ Cardinality(Occurrences(p, GoroutineHeader)) = MaxHeaders
           /\ Cardinality(Occurrences(p, GoSuffix)) = MaxMachinery
           /\ stackTrace[1] = p \o AppFrame([dir |-> Chars("/srv/"), file |-> Chars("app.go"), line |-> 42])
    /\ task[1].fields.file = Chars("\"app.go\"")
    /\ task[1].fields.line = Chars("42")

(***************************************************************************)
(* sendErrorToEndpoint over short messages and traces of the characters    *)
(* the escaping is about                                                   *)
(***************************************************************************)
TextAlphabet == {"a", "n", "\"", "\\", "\n", "\r", "\t"}

Texts == UNION {[1..k -> TextAlphabet] : k \in 0..MaxTextLen}

\* every text is given as the message and as the trace; TraceApp gives a located frame
InitEncode ==
    \E x \in Texts, t \in {<<>>, TraceApp}, id \in {<<>>, DeadBeef} :
        Reporting(id, x, IF t = <<>> THEN x ELSE t)

NextEncode == Build(1)

SpecEncode == InitEncode /\ [][NextEncode]_vars

(***************************************************************************)
(* Reading JSON back (RFC 8259), as the receiver of a report or of an      *)
(* error body does                                                         *)
(***************************************************************************)
\* the number of consecutive backslashes immediately before position i of s
BackslashesBefore(s, i) ==
    IF i = 1 \/ s[i - 1] # "\\" THEN 0
    ELSE CHOOSE r \in 1..(i - 1) :
             /\ r = i - 1 \/ s[i - 1 - r] # "\\"
             /\ \A q \in 0..(r - 1) : s[i - 1 - q] = "\\"

Invalid == <<"invalid">>

\* what the two-character escape "\c" stands for
EscapeCodes == {"\"", "\\", "/", "b", "f", "n", "r", "t"}

Unescaped(c) ==
    CASE c = "n" -> "\n"
      [] c = "r" -> "\r"
      [] c = "t" -> "\t"
      [] c = "b" -> "08"
      [] c = "f" -> "\f"
      [] OTHER -> c

\* the string a JSON string with content c (the text between its quotes)
\* denotes, or Invalid: a quote or a control character must be escaped and a
\* backslash must start one of the two-character escapes
JsonUnescape(c) ==
    LET Starts(i) == c[i] = "\\" /\ BackslashesBefore(c, i) % 2 = 0
        Escaped(i) == i > 1 /\ Starts(i - 1)
        Bad(i) ==
            IF Escaped(i) THEN c[i] \notin EscapeCodes
            ELSE IF c[i] = "\\" THEN i = Len(c)
            ELSE c[i] = "\"" \/ c[i] \in ControlChars \ {"7F"}
        out == [i \in 1..Len(c) |->
                    IF Escaped(i) THEN <<Unescaped(c[i])>>
                    ELSE IF c[i] = "\\" THEN <<>>
                    ELSE <<c[i]>>]
    IN  IF \E i \in 1..Len(c) : Bad(i) THEN Invalid ELSE Flatten(out, 1, Len(c))

JsonWhiteSpace == {" ", "\n", "\r", "\t"}

\* stands for a string in the text around the strings
Str == "string"

\* s cut at its quotes: the contents of its strings, and the text around them
\* with white space dropped and each string replaced by Str
JsonSkeleton(s) ==
    LET IsQuote(i) == s[i] = "\"" /\ BackslashesBefore(s, i) % 2 = 0
        q == SelectSeq([i \in 1..Len(s) |-> i], IsQuote)
        n == Len(q) \div 2
        Solid(c) == c \notin JsonWhiteSpace
        Outside(k) ==
            LET lo == IF k = 0 THEN 1 ELSE q[2 * k] + 1
                hi == IF 2 * k + 1 > Len(q) THEN Len(s) ELSE q[2 * k + 1] - 1
            IN  SelectSeq(SubSeq(s, lo, hi), Solid)
        pieces == [j \in 1..(2 * n + 1) |->
                      IF j % 2 = 1 THEN Outside((j - 1) \div 2) ELSE <<Str>>]
    IN  [closed |-> Len(q) % 2 = 0,
         strings |-> [k \in 1..n |-> SubSeq(s, q[2 * k - 1] + 1, q[2 * k] - 1)],
         text |-> Flatten(pieces, 1, 2 * n + 1)]

IsJsonNumber(v) ==
    LET ds == IF v # <<>> /\ v[1] = "-" THEN Tail(v) ELSE v
    IN  /\ ds # <<>>
        /\ \A k \in 1..Len(ds) : ds[k] \in Range(Digits)
        /\ Len(ds) > 1 => ds[1] # "0"

IsJsonValue(v) ==
    v = <<Str>> \/ v \in {Null, Chars("true"), Chars("false")} \/ IsJsonNumber(v)

\* s read as an object whose values are strings, numbers, true, false or null:
\* ok tells whether its structure is that of such an object, members are its
\* key/value pairs in order, a value being the text of its token
JsonObject(s) ==
    LET sk == JsonSkeleton(s)
        t == sk.text
        inner == SubSeq(t, 2, Len(t) - 1)
        parts == Split(inner, ",")
        IsStr(c) == c = Str
        StrsBefore(j) == Len(SelectSeq(Flatten(parts, 1, j - 1), IsStr))
        MemberOk(p) ==
            Len(p) >= 3 /\ p[1] = Str /\ p[2] = ":" /\ IsJsonValue(SubSeq(p, 3, Len(p)))
        ok == /\ sk.closed
              /\ Len(t) >= 2 /\ t[1] = "{" /\ t[Len(t)] = "}"
              /\ inner = <<>> \/ \A j \in 1..Len(parts) : MemberOk(parts[j])
    IN  [ok |-> ok,
         strings |-> sk.strings,
         members |->
            IF ok /\ inner # <<>>
            THEN [j \in 1..Len(parts) |->
                     LET v == SubSeq(parts[j], 3, Len(parts[j]))
                     IN  [key |-> sk.strings[StrsBefore(j) + 1],
                          value |-> IF v = <<Str>> THEN Quoted(sk.strings[StrsBefore(j) + 2])
                                    ELSE v]]
            ELSE <<>>]

\* s is a JSON object of that kind and each of its strings is a JSON string
IsJsonObject(s) ==
    LET o == JsonObject(s)
    IN  o.ok /\ \A k \in 1..Len(o.strings) : JsonUnescape(o.strings[k]) # Invalid

JsonKeys(o) == {o.members[j].key : j \in 1..Len(o.members)}

\* the values object o gives for key k
JsonValues(o, k) == {o.members[j].value : j \in {m \in 1..Len(o.members) : o.members[m].key = k}}

(***************************************************************************)
(* Properties of the encoding, checked under SpecEncode                    *)
(***************************************************************************)
\* C5: for every failure message and every trace text over an alphabet with
\* double quote, backslash, newline, carriage return and tab, the escaping
\* of sendErrorToEndpoint followed by the JSON string unescape gives back the
\* original message and the original trace.
EscapingRoundTrip ==
    \A i \in Reqs :
        Sending(i) =>
            /\ JsonUnescape(task[i].fields.message) = err[i]
            /\ JsonUnescape(task[i].fields.stackTrace) = stackTrace[i]

\* the part of the round trip the code does achieve: the trace
TraceRoundTrip ==
    \A i \in Reqs :
        Sending(i) => JsonUnescape(task[i].fields.stackTrace) = stackTrace[i]

\* C6: in every report payload the keys boardId, file and line are present,
\* and an absent tenant id, an absent file and an absent line are each the
\* token null, never the empty string "" and never a missing key.
AbsentFieldsAreNull ==
    \A i \in Reqs :
        Sending(i) =>
            LET o == JsonObject(task[i].payload)
                OneValue(k) == Cardinality(JsonValues(o, Chars(k))) = 1
                IsNull(k) == JsonValues(o, Chars(k)) = {Null}
                IsEmptyString(k) == Quoted(<<>>) \in JsonValues(o, Chars(k))
            IN  /\ o.ok
                /\ OneValue("boardId") /\ OneValue("file") /\ OneValue("line")
                /\ boardId[i] = <<>> => IsNull("boardId")
                /\ boardId[i] # <<>> => JsonValues(o, Chars("boardId")) = {Quoted(boardId[i])}
                /\ ~task[i].frame.found => IsNull("file") /\ IsNull("line")
                /\ ~IsEmptyString("boardId") /\ ~IsEmptyString("file") /\ ~IsEmptyString("line")

\* a report with no tenant id and no located frame
AbsentFieldsReached ==
    /\ Sending(1)
    /\ boardId[1] = <<>> /\ ~task[1].frame.found
    /\ err[1] = <<"\"", "\\", "a">>
    /\ LET o == JsonObject(task[1].payload)
       IN  /\ JsonValues(o, Chars("boardId")) = {Null}
           /\ JsonValues(o, Chars("file")) = {Null}
           /\ JsonValues(o, Chars("line")) = {Null}
           /\ JsonValues(o, Chars("exceptionType")) = {Chars("\"panic\"")}

(***************************************************************************)
(* Properties of panicRecoveryMiddleware, checked under Spec and FairSpec  *)
(***************************************************************************)
Done(i) == pc[i] = "done"

\* request i was served by a handler that panicked
Panicked(i) == HandlerOf(req[i].path).panics

\* request i has its error body, the last thing the middleware writes
Answered(i) ==
    /\ Done(i)
    /\ resp[i].wroteHeader
    /\ Len(resp[i].body) >= Len(errorBody(err[i]))
    /\ From(resp[i].body, Len(resp[i].body) - Len(errorBody(err[i]))) = errorBody(err[i])

\* C7: the dispatch never blocks the response: once a handler has panicked
\* and the report's goroutine has been started, the middleware writes its
\* error response whatever the goroutine does, also when the goroutine never
\* progresses or its POST is never answered.
DispatchNeverBlocks ==
    \A i \in Reqs : (pc[i] = "respond" /\ task[i].state # "none") ~> Answered(i)

\* the response is complete, with status 500, while the POST is in flight
AnsweredWhileSending ==
    /\ Answered(1) /\ resp[1].status = StatusInternalServerError
    /\ task[1].state = "sending" /\ task[1].posts = 1

\* C8: when RUNTIME_ERROR_ENDPOINT_URL is unset or empty and a handler
\* panics, no goroutine is started for the report, no POST is ever attempted,
\* and the request still receives its 500 response.
NoEndpointNoDispatch ==
    env.RUNTIME_ERROR_ENDPOINT_URL = <<>> =>
        \A i \in Reqs :
            /\ task[i] = NoTask
            /\ (Done(i) /\ Panicked(i)) =>
                   resp[i].status = StatusInternalServerError /\ Answered(i)

\* the part of C8 about the dispatch alone
NoEndpointNoTask ==
    env.RUNTIME_ERROR_ENDPOINT_URL = <<>> => \A i \in Reqs : task[i] = NoTask

\* C9: for every request whose handler panics at any point of its
\* execution, the request ends inside the middleware and its caller
\* receives status 500 with the error body the middleware writes.
PanicContained ==
    \A i \in Reqs :
        (Done(i) /\ Panicked(i)) =>
            /\ resp[i].status = StatusInternalServerError
            /\ resp[i].sentType = JsonType
            /\ resp[i].body = errorBody(err[i])

\* C10: for every recovered failure and every failure value, the body
\* the middleware writes is a well-formed JSON object with an error field
\* and a message field.
ErrorBodyIsJson ==
    \A i \in Reqs :
        (Done(i) /\ Panicked(i) /\ ~HandlerOf(req[i].path).writes) =>
            /\ IsJsonObject(resp[i].body)
            /\ JsonKeys(JsonObject(resp[i].body)) = {Chars("error"), Chars("message")}

\* the body of the scenario "division by zero" is such an object
ErrorBodyPlain ==
    \A i \in Reqs :
        (Done(i) /\ Panicked(i) /\ ~HandlerOf(req[i].path).writes /\ err[i] = DivisionByZero) =>
            /\ IsJsonObject(resp[i].body)
            /\ JsonValues(JsonObject(resp[i].body), Chars("message")) = {Quoted(DivisionByZero)}

(***************************************************************************)
(* Properties of the server, checked under SpecServe                       *)
(***************************************************************************)
\* C11: for every request whose handler returns without panicking, the
\* response has the status, the headers and the body the handler produced
\* and nothing else, the request never enters the recovery path, no trace
\* is captured and no goroutine is started for a report.
PassThrough ==
    \A i \in Reqs :
        (pc[i] # "idle" /\ ~Panicked(i)) =>
            LET h == HandlerOf(req[i].path)
            IN  /\ pc[i] \in {"handler", "done"}
                /\ err[i] = <<>> /\ stackTrace[i] = <<>> /\ boardId[i] = <<>>
                /\ task[i] = NoTask
                /\ Done(i) =>
                      /\ resp[i].wroteHeader = h.writes
                      /\ resp[i].body = IF h.writes THEN HandlerBody ELSE <<>>
                      /\ resp[i].status =
                            IF ~h.writes THEN 0 ELSE IF h.code > 0 THEN h.code ELSE StatusOK
                      /\ resp[i].sentType = IF h.writes THEN JsonType ELSE NoType

\* a handler that answered 201 has returned while another request's report is in flight
PassThroughReached ==
    /\ Done(1) /\ req[1].path = PathE
    /\ resp[1].status = StatusCreated /\ resp[1].body = HandlerBody
    /\ task[1] = NoTask
    /\ task[2].state = "sending"

\* C12: at most one POST is attempted per recovered failure, whichever way
\* the report ends (the request cannot be created, network error, timeout,
\* non-200 status, 200): none when the request cannot be created, one in
\* every other case, and no outcome starts another attempt.
AtMostOnePost ==
    \A i \in Reqs :
        /\ task[i].posts <= 1
        /\ task[i].state \in {"none", "spawned", "reqfail"} => task[i].posts = 0
        /\ task[i].state \in {"sending"} \cup DoOutcomes => task[i].posts = 1
        /\ task[i].state # "none" => Panicked(i)

\* one report got a non-200 answer and another timed out, each after one POST
AtMostOnePostReached ==
    /\ task[1].state = "non200" /\ task[1].posts = 1
    /\ task[2].state = "timeout" /\ task[2].posts = 1
    /\ Done(1) /\ Done(2)

\* the report of request i ends in this step
ReportEnds(i) == task[i].state \in {"spawned", "sending"} /\ task'[i].state \in Finished

\* C13: whichever way a report ends (the request cannot be created, network
\* failure, timeout, non-200 status, 200), its goroutine just ends: the step
\* changes nothing but that goroutine, no request leaves or re-enters its
\* path, and the status and body of a completed response never change.
ReportAbsorbed ==
    [][\A i \in Reqs :
           /\ ReportEnds(i) =>
                  /\ resp' = resp /\ pc' = pc /\ err' = err /\ env' = env
                  /\ \A j \in Reqs \ {i} : task'[j] = task[j]
           /\ Done(i) => (resp'[i] = resp[i] /\ pc'[i] = pc[i])]_vars

\* a report failed on the network after its request got the 500, another could
\* not be created, and the server has taken up none of it
ReportAbsorbedReached ==
    /\ env.RUNTIME_ERROR_ENDPOINT_URL = Chars("http://t/e")
    /\ task[1].state = "neterr"
    /\ Answered(1) /\ resp[1].status = StatusInternalServerError
    /\ resp[1].body = errorBody(DivisionByZero)
    /\ pc[2] = "handler" /\ req[2].path = PathE

(***************************************************************************)
(* main: the startup failure paths (lines 614-707 and 709-800).  The       *)
(* variables describe the one process: index Main stands for the main      *)
(* goroutine, task[Main] for the goroutine it starts, resp[Main] for the   *)
(* way the process ended.                                                  *)
(***************************************************************************)
Main == 0

ExitCode == 1   \* os.Exit(1)

Running == [exited |-> FALSE, code |-> 0]

\* what runtime.Stack(buf, false) gives inside the goroutine
StartupTrace ==
    Chars("goroutine 18 [running]:\nmain.main.func2()\n\t/app/main.go:718 +0x45\ncreated by main.main\n\t/app/main.go:715 +0x1f\n")

StartupFailures ==
    {Chars("listen tcp 0.0.0.0:8080: bind: address already in use"),
     Chars("listen tcp 0.0.0.0:80: bind: permission denied"),
     Chars("listen tcp: address \"x\": invalid port")}

StartupEnvs ==
    {[BOARD_ID |-> b, RUNTIME_ERROR_ENDPOINT_URL |-> u] :
        b \in {<<>>, EnvId},
        u \in {e.RUNTIME_ERROR_ENDPOINT_URL : e \in FlowEnvs} \cup {Chars("http://t:x/e")}}

\* one iteration of the loops of lines 632-649 and 726-743
startupFrameAt(lines, i) ==
    LET line == lines[i + 1]
    IN  IF ~(Contains(line, GoSuffix) /\ i > 0) THEN NoFrame
        ELSE LET parts == Split(line, ":")
             IN  IF Len(parts) < 2 THEN NoFrame
                 ELSE LET parsed == Atoi(TrimSpace(parts[Len(parts)]))
                          filePath == TrimSpace(Join(SubSeq(parts, 1, Len(parts) - 1), <<":">>))
                          lastSlash == LastIndex(filePath, <<"/">>)
                      IN  IF parsed.ok
                          THEN [found |-> TRUE,
                                fileName |-> IF lastSlash >= 0 THEN From(filePath, lastSlash + 1)
                                             ELSE filePath,
                                lineNumber |-> parsed.n]
                          ELSE NoFrame

locateStartupFrame(trace) ==
    LET lines == Split(trace, "\n")
        frames == [i \in 0..(Len(lines) - 1) |-> startupFrameAt(lines, i)]
        hits == {i \in DOMAIN frames : frames[i].found}
    IN  IF hits = {} THEN NoFrame
        ELSE frames[CHOOSE i \in hits : \A j \in hits : i <= j]

\* the format strings of lines 670-681 and 764-775, cut at their verbs
StartupPanicPieces ==
    <<Chars("{\n                        \"boardId\":"),
      Chars(",\n                        \"timestamp\":\""),
      Chars("\",\n                        \"file\":"),
      Chars(",\n                        \"line\":"),
      Chars(",\n                        \"stackTrace\":\""),
      Chars("\",\n                        \"message\":\""),
      Chars("\",\n                        \"exceptionType\":\"panic\",\n                        \"requestPath\":\"STARTUP\",\n                        \"requestMethod\":\"STARTUP\",\n                        \"userAgent\":\"STARTUP_ERROR\"\n                    }")>>

StartupErrorPieces ==
    <<Chars("{\n                    \"boardId\":"),
      Chars(",\n                    \"timestamp\":\""),
      Chars("\",\n                    \"file\":"),
      Chars(",\n                    \"line\":"),
      Chars(",\n                    \"stackTrace\":\""),
      Chars("\",\n                    \"message\":\""),
      Chars("\",\n                    \"exceptionType\":\"error\",\n                    \"requestPath\":\"STARTUP\",\n                    \"requestMethod\":\"STARTUP\",\n                    \"userAgent\":\"STARTUP_ERROR\"\n                }")>>

\* lines 651-691 and 745-785
startupFields(id, e, trace, frame) ==
    [NoFields EXCEPT !.boardId = boardIdJsonOf(id), !.timestamp = Timestamp,
                     !.file = fileJsonOf(frame.fileName), !.line = lineJsonOf(frame.lineNumber),
                     !.stackTrace = escapeStackTrace(trace), !.message = escapeMessage(e)]

formatStartupPayload(kind, a) ==
    LET p == IF kind = "panic" THEN StartupPanicPieces ELSE StartupErrorPieces
    IN  p[1] \o a.boardId \o p[2] \o a.timestamp \o p[3] \o a.file \o p[4] \o a.line
        \o p[5] \o a.stackTrace \o p[6] \o a.message \o p[7]

NoStartupTask ==
    [state |-> "none", kind |-> "none", frame |-> NoFrame, fields |-> NoFields,
     payload |-> <<>>, posts |-> 0]

\* the failure is logged and, when the endpoint is set, the go statement runs
\* (lines 616-621 for a recovered panic, 709-715 for an error of ListenAndServe)
StartupFails(kind, e) ==
    /\ pc[Main] = "listen"
    /\ pc' = (Main :> "exiting")
    /\ err' = (Main :> e)
    /\ task' = (Main :> IF env.RUNTIME_ERROR_ENDPOINT_URL # <<>>
                        THEN [NoStartupTask EXCEPT !.state = "spawned", !.kind = kind]
                        ELSE NoStartupTask)
    /\ UNCHANGED <<env, req, resp, stackTrace, boardId>>

\* os.Exit(1) (lines 705 and 799): the process ends with all its goroutines
Exit ==
    /\ pc[Main] = "exiting"
    /\ pc' = (Main :> "exited")
    /\ resp' = (Main :> [exited |-> TRUE, code |-> ExitCode])
    /\ UNCHANGED <<env, req, err, stackTrace, boardId, task>>

\* the goroutine, as long as the process lives: lines 622-701 and 716-795 up to client.Do
StartupBuild ==
    LET t == task[Main]
        frame == locateStartupFrame(StartupTrace)
        fields == startupFields(boardId[Main], err[Main], StartupTrace, frame)
    IN  /\ pc[Main] # "exited"
        /\ t.state = "spawned"
        /\ stackTrace' = (Main :> StartupTrace)
        /\ task' = (Main :>
                        IF newRequestFails(env.RUNTIME_ERROR_ENDPOINT_URL)
                        THEN [t EXCEPT !.state = "reqfail"]
                        ELSE [t EXCEPT !.state = "sending", !.frame = frame, !.fields = fields,
                                       !.payload = formatStartupPayload(t.kind, fields),
                                       !.posts = @ + 1])
        /\ UNCHANGED <<env, req, pc, resp, err, boardId>>

\* client.Do returns (lines 701 and 795) and the goroutine ends
StartupDoReturns(outcome) ==
    /\ pc[Main] # "exited"
    /\ task[Main].state = "sending"
    /\ task' = (Main :> [task[Main] EXCEPT !.state = outcome, !.frame = NoFrame,
                                           !.fields = NoFields, !.payload = <<>>])
    /\ UNCHANGED <<env, req, pc, resp, err, stackTrace, boardId>>

\* main has reached ListenAndServe; boardId was read at line 612
InitStartup ==
    /\ env \in StartupEnvs
    /\ req = (Main :> [NoRequest EXCEPT !.path = Chars("STARTUP"), !.method = Chars("STARTUP"),
                                        !.userAgent = Chars("STARTUP_ERROR")])
    /\ pc = (Main :> "listen")
    /\ resp = (Main :> Running)
    /\ err = (Main :> <<>>)
    /\ stackTrace = (Main :> <<>>)
    /\ boardId = (Main :> env.BOARD_ID)
    /\ task = (Main :> NoStartupTask)

NextStartup ==
    \/ \E k \in {"error", "panic"}, e \in StartupFailures : StartupFails(k, e)
    \/ Exit
    \/ StartupBuild
    \/ \E o \in DoOutcomes : StartupDoReturns(o)

SpecStartup == InitStartup /\ [][NextStartup]_vars

\* C14: on a startup failure with the reporting endpoint configured, the
\* POST of the startup report is attempted before the process exits, on
\* every execution, and the exit code is not zero.
PostPrecedesExit ==
    (/\ resp[Main].exited
     /\ env.RUNTIME_ERROR_ENDPOINT_URL # <<>>
     /\ ~newRequestFails(env.RUNTIME_ERROR_ENDPOINT_URL)) =>
        task[Main].posts = 1 /\ resp[Main].code # 0

\* the exit code alone
ExitsNonZero == resp[Main].exited => resp[Main].code = ExitCode

\* an execution in which the POST does get out before the exit
PostThenExit ==
    /\ resp[Main].exited /\ task[Main].posts = 1
    /\ JsonValues(JsonObject(task[Main].payload), Chars("userAgent")) = {Chars("\"STARTUP_ERROR\"")}

(***************************************************************************)
(* The server in front of handlers that panic with the same value at       *)
(* different places, for requests of different tenants                     *)
(***************************************************************************)
LeakRequests ==
    {[RequestTo("/a") EXCEPT !.header = DeadBeef], RequestTo("/b"), RequestTo("/g")}

NextLeak ==
    \E i \in Reqs :
        \/ \E r \in LeakRequests : Arrive(i, r)
        \/ HandlerWrite(i)
        \/ HandlerPanic(i)
        \/ Respond(i)
        \/ Build(i)
        \/ \E o \in DispatchOutcomes : DoReturns(i, o)

SpecLeak == Init /\ [][NextLeak]_vars

\* requests i and j failed with the same value, with different traces,
\* different located frames and different tenant ids
SameValueOnly(i, j) ==
    /\ Done(i) /\ Done(j) /\ Panicked(i) /\ Panicked(j)
    /\ err[i] = err[j]
    /\ stackTrace[i] # stackTrace[j]
    /\ locateFrame(stackTrace[i]) # locateFrame(stackTrace[j])
    /\ boardId[i] # boardId[j]

SameResponse(i, j) ==
    /\ resp[i].status = resp[j].status
    /\ resp[i].sentType = resp[j].sentType
    /\ resp[i].body = resp[j].body

\* C15: the response to a recovered failure is determined by the failure
\* value alone: two recovered failures with the same value but different
\* traces, different located file and line and different tenant ids get
\* the same status and the same body.
ResponseFromValueAlone ==
    \A i, j \in Reqs : SameValueOnly(i, j) => SameResponse(i, j)

\* the same for handlers that panic before they write, and nothing of the
\* trace, the located file or the tenant id is in the body
ResponseFromValueBeforeWrite ==
    \A i, j \in Reqs :
        (/\ SameValueOnly(i, j)
         /\ ~HandlerOf(req[i].path).writes /\ ~HandlerOf(req[j].path).writes) =>
            /\ SameResponse(i, j)
            /\ resp[i].body = errorBody(err[i])
            /\ ~Contains(resp[i].body, Chars("app.go")) /\ ~Contains(resp[i].body, DeadBeef)

\* both kinds of pairs occur
SameValueOnlyReached ==
    /\ SameValueOnly(1, 2)
    /\ req[1].path = PathA /\ req[2].path = PathB
    /\ locateFrame(stackTrace[1]).fileName = Chars("app.go") /\ ~locateFrame(stackTrace[2]).found
    /\ boardId[1] = DeadBeef /\ boardId[2] = <<>>
    /\ SameResponse(1, 2)

(***************************************************************************)
(* sendErrorToEndpoint over traces with several application frames         *)
(***************************************************************************)
\* application frames by their location lines: parsed tells whether the text
\* between the last colon and the first space after it is a number
ScanKinds ==
    {[loc |-> Chars("/srv/app.go:42 +0x1d"), parsed |-> TRUE, file |-> Chars("app.go"), line |-> IntOf(42)],
     [loc |-> Chars("C:/w/h.go:120"), parsed |-> TRUE, file |-> Chars("h.go"), line |-> IntOf(120)],
     [loc |-> Chars("/srv/z.go:0 +0x1"), parsed |-> TRUE, file |-> Chars("z.go"), line |-> IntOf(0)],
     [loc |-> Chars("/srv/f.go:\f7 +0x1"), parsed |-> TRUE, file |-> Chars("f.go"), line |-> IntOf(7)],
     [loc |-> Chars("/srv/big.go:9223372036854775808 +0x1"), parsed |-> FALSE, file |-> <<>>,
      line |-> IntOf(0)],
     [loc |-> Chars("/srv/bad.go:4x +0x1"), parsed |-> FALSE, file |-> <<>>, line |-> IntOf(0)],
     [loc |-> Chars("/srv/none.go: +0x1"), parsed |-> FALSE, file |-> <<>>, line |-> IntOf(0)]}

ScanFrame(k) == Frame(Chars("main.getItem(...)"), k.loc)

ScanPrefixes ==
    {<<>>, GoroutineHeader \o Frame(Chars("panic({0x1, 0x2})"),
                                   Chars("/opt/go/src/runtime/panic.go:884 +0x212"))}

\* what the first parsed frame of ks is, NoFrame when there is none
FirstParsed(ks) ==
    LET hits == {n \in 1..Len(ks) : ks[n].parsed}
    IN  IF hits = {} THEN NoFrame
        ELSE LET k == ks[CHOOSE n \in hits : \A m \in hits : n <= m]
             IN  [found |-> TRUE, fileName |-> k.file, lineNumber |-> k.line]

\* traces of one to MaxApps application frames, each with the frame expected
ScanCases ==
    {[text |-> p \o Flatten([n \in 1..Len(ks) |-> ScanFrame(ks[n])], 1, Len(ks)),
      expected |-> FirstParsed(ks)] :
        p \in ScanPrefixes, ks \in UNION {[1..n -> ScanKinds] : n \in 1..MaxApps}}

InitScan == \E c \in ScanCases : Reporting(<<>>, DivisionByZero, c.text)

NextScan == Build(1)

SpecScan == InitScan /\ [][NextScan]_vars

\* C16: the locator returns the first accepted, successfully parsed frame
\* in scan order: with several qualifying application frames the file and
\* line are those of the earliest one, a frame whose line text does not
\* parse is passed over for the next one, and the offset after the first
\* space is dropped before parsing.
FirstParsedFrameWins ==
    \A i \in Reqs :
        Sending(i) =>
            \A c \in ScanCases :
                c.text = stackTrace[i] =>
                    /\ task[i].frame = c.expected
                    /\ Positive(c.expected.lineNumber) =>
                          /\ task[i].fields.file = Quoted(c.expected.fileName)
                          /\ task[i].fields.line = Itoa(c.expected.lineNumber)

\* an unparsable frame, then app.go:42, then h.go:120: app.go:42 is reported
FirstParsedFrameReached ==
    /\ Sending(1)
    /\ stackTrace[1] = Frame(Chars("main.getItem(...)"), Chars("/srv/bad.go:4x +0x1"))
                          \o Frame(Chars("main.getItem(...)"), Chars("/srv/app.go:42 +0x1d"))
                          \o Frame(Chars("main.getItem(...)"), Chars("C:/w/h.go:120"))
    /\ task[1].fields.file = Chars("\"app.go\"") /\ task[1].fields.line = Chars("42")

(***************************************************************************)
(* sendErrorToEndpoint over traces whose frames have a line number that is *)
(* not positive or a path that ends in a slash                             *)
(***************************************************************************)
PairLocations ==
    {Chars("/srv/app.go:42 +0x1d"), Chars("/srv/z.go:0 +0x1"), Chars("/srv/n.go:-5 +0x1"),
     Chars("/srv/x.go:/:7 +0x1"), Chars("/srv/max.go:9223372036854775807 +0x1")}

PairTraces ==
    {p \o t : p \in ScanPrefixes,
              t \in Concats({Frame(Chars("main.getItem(...)"), l) : l \in PairLocations}, MaxApps)}

InitPair == \E t \in PairTraces : Reporting(<<>>, DivisionByZero, t)

NextPair == Build(1)

SpecPair == InitPair /\ [][NextPair]_vars

ReportedFile(i) == JsonValues(JsonObject(task[i].payload), Chars("file"))

ReportedLine(i) == JsonValues(JsonObject(task[i].payload), Chars("line"))

\* C17: in every report payload file is null if and only if line is null,
\* and a line that is present is a positive integer, also for frames whose
\* line text parses to zero or to a negative number and frames whose path
\* ends in a slash.
FileIffLine ==
    \A i \in Reqs :
        Sending(i) =>
            /\ ReportedFile(i) = {Null} <=> ReportedLine(i) = {Null}
            /\ \A v \in ReportedLine(i) : v # Null => (Atoi(v).ok /\ Positive(Atoi(v).n))

\* the part about the line alone
PresentLineIsPositive ==
    \A i \in Reqs :
        Sending(i) => \A v \in ReportedLine(i) : v # Null => (Atoi(v).ok /\ Positive(Atoi(v).n))

\* a report with a file and a line
FileAndLineReached ==
    /\ Sending(1)
    /\ ReportedFile(1) = {Chars("\"app.go\"")} /\ ReportedLine(1) = {Chars("42")}

(***************************************************************************)
(* sendErrorToEndpoint over requests, messages and file names with the     *)
(* characters a JSON string must escape                                    *)
(***************************************************************************)
RecordAlphabet == {"a", "\"", "\\", "\n"}

RecordTexts == UNION {[1..k -> RecordAlphabet] : k \in 0..MaxTextLen}

\* a header value has no line break (net/http rejects it), a query parameter
\* and a path are percent-decoded and have any character
HeaderTexts == {x \in RecordTexts : \A k \in 1..Len(x) : x[k] # "\n"}

\* the requests: one of query parameter, header, path and User-Agent is the text x
RecordRequests ==
    {[RequestTo("/a") EXCEPT !.query = x] : x \in RecordTexts}
    \cup {[RequestTo("/a") EXCEPT !.header = x] : x \in HeaderTexts}
    \cup {[RequestTo("/a") EXCEPT !.path = <<"/">> \o x] : x \in RecordTexts}
    \cup {[RequestTo("/a") EXCEPT !.userAgent = x] : x \in HeaderTexts}

\* an application frame in the file x.go
TraceIn(x) == Frame(Chars("main.get()"), Chars("/srv/") \o x \o Chars(".go:42 +0x1d"))

\* request r has panicked with value e and trace t was captured; the go statement has run
ReportingOf(r, e, t) ==
    /\ env = ReportEnv
    /\ req = [i \in Reqs |-> IF i = 1 THEN r ELSE NoRequest]
    /\ pc = [i \in Reqs |-> IF i = 1 THEN "respond" ELSE "idle"]
    /\ resp = [i \in Reqs |-> FreshResponse]
    /\ err = [i \in Reqs |-> IF i = 1 THEN e ELSE <<>>]
    /\ stackTrace = [i \in Reqs |-> IF i = 1 THEN t ELSE <<>>]
    /\ boardId = [i \in Reqs |-> IF i = 1 THEN extractBoardId(r, ReportEnv) ELSE <<>>]
    /\ task = [i \in Reqs |-> IF i = 1 THEN Spawned ELSE NoTask]

InitRecord ==
    \/ \E r \in RecordRequests : ReportingOf(r, DivisionByZero, TraceApp)
    \/ \E x \in RecordTexts : ReportingOf(RequestTo("/a"), x, TraceApp)
    \/ \E x \in HeaderTexts : ReportingOf(RequestTo("/a"), DivisionByZero, TraceIn(x))

NextRecord == Build(1)

SpecRecord == InitRecord /\ [][NextRecord]_vars

RecordKeys ==
    <<Chars("boardId"), Chars("timestamp"), Chars("file"), Chars("line"), Chars("stackTrace"),
      Chars("message"), Chars("exceptionType"), Chars("requestPath"), Chars("requestMethod"),
      Chars("userAgent")>>

\* the text between the quotes of a field that is a string or null
Content(v) == IF v = Null THEN <<>> ELSE SubSeq(v, 2, Len(v) - 1)

\* the contents of the string fields as they stand in the payload
StringFields(a) ==
    {Content(a.boardId), Content(a.file), a.stackTrace, a.message, a.requestPath,
     a.requestMethod, a.userAgent}

\* C18: every payload built by sendErrorToEndpoint is a well-formed flat
\* JSON record with the ten keys of the report, and no string field of it
\* (boardId, stackTrace, message, requestPath, requestMethod, userAgent,
\* file) has an unescaped double quote, an unescaped backslash or a raw
\* newline, whatever the tenant id, the path, the User-Agent and the message
\* contain.
WellFormedRecord ==
    \A i \in Reqs :
        Sending(i) =>
            LET o == JsonObject(task[i].payload)
            IN  /\ IsJsonObject(task[i].payload)
                /\ [j \in 1..Len(o.members) |-> o.members[j].key] = RecordKeys
                /\ \A c \in StringFields(task[i].fields) : JsonUnescape(c) # Invalid

\* the one string field that is escaped in full: the trace
TraceFieldWellFormed ==
    \A i \in Reqs : Sending(i) => JsonUnescape(task[i].fields.stackTrace) # Invalid

\* a report of a request with plain texts is a record with the ten keys
PlainRecordReached ==
    /\ Sending(1)
    /\ req[1] = [RequestTo("/a") EXCEPT !.header = Chars("aaa")]
    /\ IsJsonObject(task[1].payload)
    /\ [j \in 1..Len(JsonObject(task[1].payload).members) |->
            JsonObject(task[1].payload).members[j].key] = RecordKeys

====
